---- MODULE Spec2Model ----
(***************************************************************************)
(* Session orchestration of the group gaming bot.                          *)
(*                                                                         *)
(* The repository holds two engines.  The `bot' engine (src/bot.py) keeps   *)
(* every session as a dict in the process-wide map active_games and drives  *)
(* it with asyncio tasks; the `main' engine (src/main.py, src/games.py,     *)
(* src/database.py) keeps BaseGame objects and drives them with job-queue   *)
(* jobs.  A behaviour of this module is a run of one of the two engines,    *)
(* chosen in the initial state, for one chat room.                          *)
(*                                                                         *)
(* Coroutines are cut at the awaits that really suspend (asyncio.sleep and  *)
(* the calls to the chat transport); the code between two such awaits is    *)
(* one atomic step.  The awaits of save_game_state_to_db, update_user_score *)
(* and get_channel_content run synchronous store calls and never yield to   *)
(* the event loop.  The dispatcher processes one update at a time (the      *)
(* application is built without concurrent updates), so at most one handler *)
(* is in flight; tasks and jobs interleave with it at its awaits.           *)
(*                                                                         *)
(* Time is counted in units of 10 seconds.                                  *)
(***************************************************************************)
EXTENDS Integers, Sequences, FiniteSets, TLC

\* ------------------------------------------------------------------ bounds
NumUsers == 2
MaxGames == 2
PlayGames == 1
MaxTasks == 5
MaxRounds == 2
MaxWords == 2
MaxAttempts == 1
MaxGuesses == 20
MaxBoots == 1

\* ------------------------------------------------------- program constants
JoinWindow == 6
WatchdogPeriod == 3
InactivityLimit == 30
QuizWindow == 2
TurnTimeout == 6
GuessTimeout == 6
QuizPoints == 10
WordPoints == 5
GuessPoints == 15
NumberMax == 100
AlertPeriod == 2
GameJoinWindow == 6
GameTurnTimeout == 6
AnswerPoints == 10
MaxQuestions == 10

Users == 1..NumUsers
\* the display names a user may carry when pressing the join button
Names(u) == IF u = 1 THEN {"n1", "n2"} ELSE {"n1"}
Sids == 1..MaxGames
TaskIds == 1..MaxTasks
GameTypes == {"quiz", "wordchain", "guessing", "number_guessing"}
Secrets == {50}
NumberInputs == {0, 1, 50, 100, 101}
NoWord == <<>>
\* the content bank of the word chain: the start words it may hold
WordBanks == {{}, {<<"a", "e">>}}
UserWords == {<<"e", "a">>, <<"a", "e">>, <<" ", "E", "a">>, <<"e">>, <<"e", "1">>}
LowerCase == {"a", "e"}
\* the content bank of the guessing game: how many items a game gets
GuessBanks == {0, MaxRounds}
UpperCase == {"A", "E"}
\* main.py: the game types of create_game, what the content channel may
\* yield for a game (nothing, or an answer), and the texts users send
MainGameTypes == {"wordchain", "guessing", "wordcorrection"}
MainContent == {NoWord, <<"a", "e">>}
MainTexts == {<<"a">>, <<"e">>, <<"a", "e">>, <<"e", "a">>}
\* the content bank of the quiz: no question at all, or MaxRounds questions,
\* each with options (sent as a poll) or without (sent as text)
QuizBanks == {<<>>} \cup [1..MaxRounds -> {"poll", "text"}]

VARIABLES
    engine,         \* "bot" or "main": which program runs
    limit,          \* how many sessions the users of the run start at most
    active_games,   \* bot.py active_games, for the one room: 0 or a session id
    games,          \* the session dicts, by identity; a deleted dict lives on
                    \* while a coroutine still holds a reference to it
    store,          \* game_states collection: the room's document, or NoDoc
    tasks,          \* the asyncio tasks created with create_task
    h,              \* the update handler in flight
    ledger,         \* users collection: total_score by user
    started,        \* number of sessions created so far
    stats,          \* user_stats collection: games_played and games_won by user
    boots,          \* how many times the process has been started again
    out             \* what the step asked the chat transport to send

vars == <<engine, limit, active_games, games, store, tasks, h, ledger, started, stats, boots, out>>

\* ----------------------------------------------------------- value shapes
Min(a, b) == IF a < b THEN a ELSE b

ZeroAttempts == [u \in Users |-> 0]

\* A session dict.  A key the code has not set yet is held at its default;
\* cq.type = "absent" and cgi = -1 stand for a missing key.
Blank ==
    [game_type |-> "none", players |-> <<>>, status |-> "dead",
     current_round |-> 0, timer_task |-> 0, idle |-> 0,
     quiz_data |-> <<>>, cq |-> [type |-> "absent", q |-> 0],
     answered_this_round |-> FALSE,
     awarded |-> {},         \* history: the questions an award was given for
     current_word |-> NoWord, turn_index |-> 0,
     guessing_len |-> 0, cgi |-> -1, attempts |-> ZeroAttempts,
     guessed_this_round |-> FALSE,
     secret_number |-> 0, guesses_made |-> ZeroAttempts,
     id |-> 0, answer |-> NoWord, guessed_letters |-> {}, score |-> ZeroAttempts]

NoDoc == [Blank EXCEPT !.status = "nodoc"]

NoTask == [kind |-> "free", pc |-> "", wake |-> 0, sid |-> 0, gt |-> "", q |-> 0]

NoH == [kind |-> "none", pc |-> "", user |-> 0, sid |-> 0, word |-> NoWord, q |-> 0]

\* ------------------------------------------------------------ persistence
\* save_game_state_to_db: the document is the dict of the session that is
\* in active_games now, without its timer_task.
Snapshot(g) == [g EXCEPT !.timer_task = 0]

SaveState(a, g, st) == IF a /= 0 THEN Snapshot(g[a]) ELSE st

\* ------------------------------------------------------------------ tasks
FreeIds(t) == {i \in TaskIds : t[i].kind = "free"}

NewId(t) == CHOOSE i \in FreeIds(t) : \A j \in FreeIds(t) : i <= j

CanCreate(t) == FreeIds(t) /= {}

Spawn(t, kind, sid, gt) ==
    [t EXCEPT ![NewId(t)] = [kind |-> kind, pc |-> "start", wake |-> 0, sid |-> sid, gt |-> gt, q |-> 0]]

\* timer_task.cancel(): the task gets CancelledError at its await and ends.
CancelTask(t, id) == IF id > 0 THEN [t EXCEPT ![id] = NoTask] ELSE t

\* The handle of a cancelled or finished task is still a task object (true
\* in `if game_state.get("timer_task")', and cancel() on it does nothing).
DoneHandle == -1

Referenced(s, a, t, hh) ==
    \/ a = s
    \/ \E i \in TaskIds : t[i].kind /= "free" /\ t[i].sid = s
    \/ hh.kind /= "none" /\ hh.sid = s

\* A dict that nothing refers to any more is garbage; a handle to a task that
\* has ended is the handle of a done task.
Normalize(g, a, t, hh) ==
    [s \in Sids |->
        IF ~Referenced(s, a, t, hh) THEN Blank
        ELSE IF g[s].timer_task > 0 /\ t[g[s].timer_task].kind = "free"
             THEN [g[s] EXCEPT !.timer_task = DoneHandle]
             ELSE g[s]]

Commit(a, g, st, t, hh, led, msg) ==
    /\ out' = msg
    /\ active_games' = a
    /\ games' = Normalize(g, a, t, hh)
    /\ store' = st
    /\ tasks' = t
    /\ h' = hh
    /\ ledger' = led

\* update_user_score with $set in the place of $inc
UpdateUserScoreSet(led, u, points) == [led EXCEPT ![u] = points]

\* update_user_score: $inc of total_score (upsert).
UpdateUserScore(led, u, points) == [led EXCEPT ![u] = @ + points]

\* lines 952-953 without the floor of line 953
NumberPointsNoFloor(guesses_count) == 100 - (guesses_count * 5)

\* handle_number_guess, lines 952-953
NumberPoints(guesses_count) ==
    LET points == 100 - (guesses_count * 5)
    IN IF points > 10 THEN points ELSE 10

\* str.lower, str.strip and str.isalpha on words over the model's alphabet
LowerChar(c) == IF c = "A" THEN "a" ELSE IF c = "E" THEN "e" ELSE c

Lower(w) == [k \in 1..Len(w) |-> LowerChar(w[k])]

RECURSIVE Strip(_)
Strip(w) ==
    IF w = <<>> THEN w
    ELSE IF Head(w) = " " THEN Strip(Tail(w))
    ELSE IF w[Len(w)] = " " THEN Strip(SubSeq(w, 1, Len(w) - 1))
    ELSE w

IsAlpha(w) == Len(w) > 0 /\ \A k \in 1..Len(w) : w[k] \in LowerCase \cup UpperCase

\* handle_wordchain_answer, line 704
WordValid(user_word, current_word) ==
    /\ Len(user_word) >= 1 /\ user_word[1] = LowerChar(current_word[Len(current_word)])
    /\ Len(user_word) > 1
    /\ IsAlpha(user_word)

\* random.shuffle(players): any order
Shuffles(players) ==
    {[k \in 1..Len(players) |-> players[f[k]]] : f \in Permutations(1..Len(players))}

\* list.pop(k) and the list comprehension of line 731 (indices from 0)
Pop(players, k) ==
    [j \in 1..(Len(players) - 1) |-> IF j <= k THEN players[j] ELSE players[j + 1]]

RECURSIVE Without(_, _)
Without(players, u) ==
    IF players = <<>> THEN <<>>
    ELSE IF Head(players).user_id = u THEN Without(Tail(players), u)
    ELSE <<Head(players)>> \o Without(Tail(players), u)

UserIds(g) == {g.players[i].user_id : i \in 1..Len(g.players)}

Live(s) == s /= 0 /\ active_games = s

\* ------------------------------------------------------------------- init
\* a user_stats collection without records
NoStats == [u \in Users |-> [games_played |-> 0, games_won |-> 0]]

Init ==
    /\ engine \in {"bot", "main"}
    /\ limit = PlayGames
    /\ active_games = 0
    /\ games = [s \in Sids |-> Blank]
    /\ store = NoDoc
    /\ tasks = [i \in TaskIds |-> NoTask]
    /\ h = NoH
    /\ ledger = [u \in Users |-> 0]
    /\ started = 0
    /\ stats = NoStats
    /\ boots = 0
    /\ out = "none"

\* --------------------------------------------------------- bot.py handlers
\* button_handler, start_game_<type>: a session already in the room rejects
\* the request; otherwise the session dict is created and saved, and after
\* the message edit the countdown task is created.
StartGameRejected ==
    /\ engine = "bot" /\ h = NoH
    /\ active_games /= 0
    /\ Commit(active_games, games, store, tasks, NoH, ledger, "conflict")
    /\ UNCHANGED <<engine, limit, started, stats, boots>>

\* start_game_ without the test of line 372
StartGameOverwrite(gt) ==
    /\ engine = "bot" /\ h = NoH
    /\ started < limit
    /\ LET s == started + 1
           g == [games EXCEPT ![s] = [Blank EXCEPT !.game_type = gt,
                                          !.status = "waiting_for_players"]]
       IN /\ started' = s
          /\ Commit(s, g, SaveState(s, g, store), tasks,
                    [NoH EXCEPT !.kind = "start", !.pc = "countdown", !.sid = s],
                    ledger, "join_prompt")
    /\ UNCHANGED <<engine, limit, stats, boots>>

StartGameCreate(gt) ==
    /\ engine = "bot" /\ h = NoH
    /\ active_games = 0
    /\ started < limit
    /\ LET s == started + 1
           g == [games EXCEPT ![s] = [Blank EXCEPT !.game_type = gt,
                                          !.status = "waiting_for_players"]]
       IN /\ started' = s
          /\ Commit(s, g, SaveState(s, g, store), tasks,
                    [NoH EXCEPT !.kind = "start", !.pc = "countdown", !.sid = s],
                    ledger, "join_prompt")
    /\ UNCHANGED <<engine, limit, stats, boots>>

\* line 393: active_games[chat_id]["timer_task"] = create_task(countdown);
\* KeyError ends the handler if the session is gone.
StartGameCountdown ==
    /\ engine = "bot" /\ h.kind = "start" /\ h.pc = "countdown"
    /\ IF active_games = 0
       THEN Commit(active_games, games, store, tasks, NoH, ledger, "none")
       ELSE /\ CanCreate(tasks)
            /\ LET a == active_games
                   g == [games EXCEPT ![a].timer_task = NewId(tasks)]
               IN Commit(a, g, store, Spawn(tasks, "countdown", a, games[a].game_type),
                         NoH, ledger, "none")
    /\ UNCHANGED <<engine, limit, started, stats, boots>>

\* button_handler, join_game_<id>: player_data is the dict {user_id, username}
\* and membership is tested on the whole dict.
PlayerData(u, n) == [user_id |-> u, username |-> n]

InPlayers(pd, players) == \E i \in 1..Len(players) : players[i] = pd

\* The join handler without the status test of line 401.
JoinGameAnyStatus(u, n, ok) ==
    /\ engine = "bot" /\ h = NoH /\ active_games /= 0
    /\ LET a == active_games
           pd == PlayerData(u, n)
           g == [games EXCEPT ![a].players = Append(@, pd)]
       IN /\ ~InPlayers(pd, games[a].players)
          /\ Commit(a, g, IF ok THEN SaveState(a, g, store) ELSE store,
                    tasks, NoH, ledger, "joined")
    /\ UNCHANGED <<engine, limit, started, stats, boots>>

\* ok: the call of the store in the step works.  save_game_state_to_db
\* catches the exception of update_one (lines 135-149): nothing is written.
JoinGameDb(u, n, ok) ==
    /\ engine = "bot" /\ h = NoH
    /\ IF active_games = 0 \/ games[active_games].status /= "waiting_for_players"
       THEN Commit(active_games, games, store, tasks, NoH, ledger, "join_closed")
       ELSE LET a == active_games
                pd == PlayerData(u, n)
            IN IF ~InPlayers(pd, games[a].players)
               THEN LET g == [games EXCEPT ![a].players = Append(@, pd)]
                    IN Commit(a, g, IF ok THEN SaveState(a, g, store) ELSE store,
                              tasks, NoH, ledger, "joined")
               ELSE Commit(a, games, store, tasks, NoH, ledger, "already_joined")
    /\ UNCHANGED <<engine, limit, started, stats, boots>>

JoinGame(u, n) == JoinGameDb(u, n, TRUE)

\* endgame_command: only the task in timer_task is cancelled.  ok: the call
\* of the store works; delete_one (line 281) is in no try, so its exception
\* ends the handler before the reply of line 282.
EndGameCommandDb(admin, ok) ==
    /\ engine = "bot" /\ h = NoH
    /\ IF ~admin
       THEN Commit(active_games, games, store, tasks, NoH, ledger, "admin_only")
       ELSE IF active_games /= 0
            THEN IF ok
                 THEN Commit(0, games, NoDoc,
                             CancelTask(tasks, games[active_games].timer_task),
                             NoH, ledger, "ended_admin")
                 ELSE Commit(0, games, store,
                             CancelTask(tasks, games[active_games].timer_task),
                             NoH, ledger, "none")
            ELSE Commit(0, games, store, tasks, NoH, ledger, "no_game")
    /\ UNCHANGED <<engine, limit, started, stats, boots>>

EndGameCommand(admin) == EndGameCommandDb(admin, TRUE)

\* handle_text_messages: the dispatch on the session in the room
InProgress(gt) ==
    /\ active_games /= 0
    /\ games[active_games].status = "in_progress"
    /\ games[active_games].game_type = gt

\* The number guess handler without the membership test of lines 926-929.
NumberGuessAnyUser(u, x, cap) ==
    /\ engine = "bot" /\ h = NoH
    /\ InProgress("number_guessing")
    /\ LET a == active_games
           gs == games[a]
       IN /\ 1 <= x /\ x <= NumberMax /\ gs.secret_number /= 0
          /\ gs.guesses_made[u] < cap
          /\ LET g == [games EXCEPT ![a].guesses_made[u] = @ + 1,
                                     ![a].idle = 0]
             IN Commit(a, g, SaveState(a, g, store), tasks, NoH, ledger,
                       IF x < gs.secret_number THEN "higher" ELSE "lower")
    /\ UNCHANGED <<engine, limit, started, stats, boots>>

\* handle_number_guess.  x = -1 stands for a text that int() rejects.  Until
\* start_number_guessing_game has run the dict has no secret_number key and
\* line 940 raises KeyError.  cap bounds the guesses a user makes in a run.
NumberGuessUpTo(u, x, cap) ==
    /\ engine = "bot" /\ h = NoH
    /\ InProgress("number_guessing")
    /\ LET a == active_games
           gs == games[a]
       IN IF u \notin UserIds(gs)
          THEN Commit(a, games, store, tasks, NoH, ledger, "none")
          ELSE IF x = -1
          THEN Commit(a, games, store, tasks, NoH, ledger, "not_a_number")
          ELSE IF ~(1 <= x /\ x <= NumberMax)
          THEN Commit(a, games, store, tasks, NoH, ledger, "out_of_range")
          ELSE IF gs.secret_number = 0
          THEN Commit(a, games, store, tasks, NoH, ledger, "none")
          ELSE /\ gs.guesses_made[u] < cap
               /\ LET g == [games EXCEPT ![a].guesses_made[u] = @ + 1,
                                          ![a].idle = 0]
                      st == SaveState(a, g, store)
                  IN IF x = gs.secret_number
                     THEN Commit(a, g, st, tasks,
                                 [NoH EXCEPT !.kind = "number", !.pc = "won", !.sid = a],
                                 UpdateUserScore(ledger, u, NumberPoints(g[a].guesses_made[u])),
                                 "number_correct")
                     ELSE Commit(a, g, st, tasks, NoH, ledger,
                                 IF x < gs.secret_number THEN "higher" ELSE "lower")
    /\ UNCHANGED <<engine, limit, started, stats, boots>>

NumberGuess(u, x) == NumberGuessUpTo(u, x, MaxAttempts)

\* lines 957-961, after the reply: game_state is the dict read at line 924
NumberWon ==
    /\ engine = "bot" /\ h.kind = "number" /\ h.pc = "won"
    /\ LET t == CancelTask(tasks, games[h.sid].timer_task)
       IN IF active_games = 0
          THEN Commit(0, games, store, t, NoH, ledger, "none")
          ELSE Commit(0, games, NoDoc, t, NoH, ledger, "none")
    /\ UNCHANGED <<engine, limit, started, stats, boots>>

\* handle_quiz_answer, up to the reply.  ans is the question whose answer
\* the text is (0: the answer of no question).
QuizAnswer(u, ans) ==
    /\ engine = "bot" /\ h = NoH
    /\ InProgress("quiz")
    /\ LET a == active_games
           gs == games[a]
       IN IF \/ u \notin UserIds(gs)
             \/ gs.cq.type \in {"absent", "poll"}
          THEN Commit(a, games, store, tasks, NoH, ledger, "none")
          ELSE IF gs.answered_this_round
          THEN Commit(a, games, store, tasks, NoH, ledger, "already_answered")
          ELSE IF gs.cq.type = "text" /\ ans = gs.cq.q
          THEN Commit(a, games, store, tasks,
                      [NoH EXCEPT !.kind = "quiz", !.pc = "award", !.user = u,
                                  !.sid = a, !.q = gs.cq.q],
                      ledger, "quiz_correct")
          ELSE Commit(a, games, store, tasks, NoH, ledger, "none")
    /\ UNCHANGED <<engine, limit, started, stats, boots>>

\* handle_poll_answer, up to the message.  pq is the poll voted on (the
\* question it was sent for), right whether the option is the correct one.
PollAnswer(u, pq, right) ==
    /\ engine = "bot" /\ h = NoH
    /\ InProgress("quiz")
    /\ LET a == active_games
           gs == games[a]
       IN IF gs.cq.type = "poll" /\ gs.cq.q = pq
          THEN IF u \notin UserIds(gs) \/ gs.answered_this_round
               THEN Commit(a, games, store, tasks, NoH, ledger, "none")
               ELSE IF right
               THEN Commit(a, games, store, tasks,
                           [NoH EXCEPT !.kind = "poll", !.pc = "award", !.user = u,
                                       !.sid = a, !.q = gs.cq.q],
                           ledger, "quiz_correct")
               ELSE Commit(a, games, store, tasks, NoH, ledger, "poll_wrong")
          ELSE Commit(a, games, store, tasks, NoH, ledger, "none")
    /\ UNCHANGED <<engine, limit, started, stats, boots>>

\* lines 596-599 and 629-632, after the reply
QuizAward ==
    /\ engine = "bot" /\ h.kind \in {"quiz", "poll"} /\ h.pc = "award"
    /\ LET g == [games EXCEPT ![h.sid].answered_this_round = TRUE,
                              ![h.sid].awarded = @ \cup {h.q},
                              ![h.sid].idle = 0]
       IN Commit(active_games, g, SaveState(active_games, g, store), tasks, NoH,
                 UpdateUserScore(ledger, h.user, QuizPoints), "none")
    /\ UNCHANGED <<engine, limit, started, stats, boots>>

\* handle_wordchain_answer without the return of line 699: the answer of a
\* player whose turn it is not is refused and then handled as a wrong word
WordAnswerNoReturn(u, w) ==
    /\ engine = "bot" /\ h = NoH
    /\ InProgress("wordchain")
    /\ LET a == active_games
           gs == games[a]
           user_word == Lower(Strip(w))
       IN IF \/ gs.players = <<>>
             \/ gs.current_word = NoWord
             \/ gs.turn_index >= Len(gs.players)
          THEN Commit(a, games, store, tasks, NoH, ledger, "none")
          ELSE IF u /= gs.players[gs.turn_index + 1].user_id
          THEN Commit(a, games, store, tasks,
                      [NoH EXCEPT !.kind = "word", !.pc = "reject", !.user = u, !.sid = a],
                      ledger, "not_your_turn")
          ELSE Commit(a, games, store, tasks,
                      [NoH EXCEPT !.kind = "word", !.pc = "reject", !.user = u, !.sid = a],
                      ledger, "word_bad")
    /\ UNCHANGED <<engine, limit, started, stats, boots>>

\* handle_wordchain_answer, up to the first reply.  An index out of range at
\* line 695 raises IndexError and the handler ends there.
WordAnswer(u, w) ==
    /\ engine = "bot" /\ h = NoH
    /\ InProgress("wordchain")
    /\ LET a == active_games
           gs == games[a]
           user_word == Lower(Strip(w))
       IN IF \/ gs.players = <<>>
             \/ gs.current_word = NoWord
             \/ gs.turn_index >= Len(gs.players)
          THEN Commit(a, games, store, tasks, NoH, ledger, "none")
          ELSE IF u /= gs.players[gs.turn_index + 1].user_id
          THEN Commit(a, games, store, tasks, NoH, ledger, "not_your_turn")
          ELSE IF WordValid(user_word, gs.current_word)
          THEN /\ ledger[u] < MaxWords * WordPoints
               /\ Commit(a, games, store, tasks,
                         [NoH EXCEPT !.kind = "word", !.pc = "accept", !.user = u,
                                     !.sid = a, !.word = user_word],
                         UpdateUserScore(ledger, u, WordPoints), "word_ok")
          ELSE Commit(a, games, store, tasks,
                      [NoH EXCEPT !.kind = "word", !.pc = "reject", !.user = u, !.sid = a],
                      ledger, "word_bad")
    /\ UNCHANGED <<engine, limit, started, stats, boots>>

\* lines 709-722: with no player left line 710 raises ZeroDivisionError after
\* current_word was set.
WordAccept ==
    /\ engine = "bot" /\ h.kind = "word" /\ h.pc = "accept"
    /\ LET s == h.sid
           gs == games[s]
       IN IF gs.players = <<>>
          THEN Commit(active_games, [games EXCEPT ![s].current_word = h.word], store,
                      tasks, NoH, ledger, "none")
          ELSE LET g == [games EXCEPT ![s].current_word = h.word,
                                      ![s].turn_index = (@ + 1) % Len(gs.players),
                                      ![s].idle = 0,
                                      ![s].timer_task =
                                          IF @ > 0 THEN DoneHandle ELSE @]
               IN Commit(active_games, g, SaveState(active_games, g, store),
                         CancelTask(tasks, gs.timer_task),
                         [h EXCEPT !.pc = "rearm"], ledger, "next_turn")
    /\ UNCHANGED <<engine, limit, started, stats, boots>>

\* lines 731-755
WordReject ==
    /\ engine = "bot" /\ h.kind = "word" /\ h.pc = "reject"
    /\ LET s == h.sid
           gs == games[s]
           left == Without(gs.players, h.user)
           g == [games EXCEPT ![s].players = left,
                              ![s].idle = 0,
                              ![s].timer_task = IF @ > 0 THEN DoneHandle ELSE @]
           st == SaveState(active_games, g, store)
           t == CancelTask(tasks, gs.timer_task)
       IN IF Len(left) < 2
          THEN Commit(active_games, g, st, t, [h EXCEPT !.pc = "end"], ledger, "wc_over")
          ELSE Commit(active_games,
                      [g EXCEPT ![s].turn_index = IF @ >= Len(left) THEN 0 ELSE @],
                      st, t, [h EXCEPT !.pc = "rearm"], ledger, "next_turn")
    /\ UNCHANGED <<engine, limit, started, stats, boots>>

\* lines 723 and 756: the new turn timer goes into the handler's game_state
WordRearm ==
    /\ engine = "bot" /\ h.kind = "word" /\ h.pc = "rearm"
    /\ CanCreate(tasks)
    /\ Commit(active_games, [games EXCEPT ![h.sid].timer_task = NewId(tasks)], store,
              Spawn(tasks, "turn_wc", 0, ""), NoH, ledger, "none")
    /\ UNCHANGED <<engine, limit, started, stats, boots>>

\* lines 741-743
WordEnd ==
    /\ engine = "bot" /\ h.kind = "word" /\ h.pc = "end"
    /\ IF active_games = 0
       THEN Commit(0, games, store, tasks, NoH, ledger, "none")
       ELSE Commit(0, games, NoDoc, tasks, NoH, ledger, "none")
    /\ UNCHANGED <<engine, limit, started, stats, boots>>

\* handle_guessing_answer, up to the reply.  ans is the item whose answer
\* the text is (0: the answer of no item).
GuessAnswer(u, ans) ==
    /\ engine = "bot" /\ h = NoH
    /\ InProgress("guessing")
    /\ LET a == active_games
           gs == games[a]
       IN IF \/ u \notin UserIds(gs)
             \/ gs.cgi = -1
             \/ gs.guessed_this_round
             \/ gs.cgi = 0
          THEN Commit(a, games, store, tasks, NoH, ledger, "none")
          ELSE IF ans = gs.cgi
          THEN Commit(a, games, store, tasks,
                      [NoH EXCEPT !.kind = "guess", !.pc = "won", !.user = u, !.sid = a],
                      UpdateUserScore(ledger, u, GuessPoints), "guess_correct")
          ELSE /\ gs.attempts[u] < MaxAttempts
               /\ Commit(a, [games EXCEPT ![a].attempts[u] = @ + 1], store, tasks,
                         [NoH EXCEPT !.kind = "guess", !.pc = "wrong", !.user = u,
                                     !.sid = a],
                         ledger, "guess_wrong")
    /\ UNCHANGED <<engine, limit, started, stats, boots>>

\* lines 885-894: KeyError at line 894 when the room has no session
GuessWon ==
    /\ engine = "bot" /\ h.kind = "guess" /\ h.pc = "won"
    /\ LET s == h.sid
           g == [games EXCEPT ![s].guessed_this_round = TRUE,
                              ![s].current_round = @ + 1,
                              ![s].idle = 0,
                              ![s].timer_task = IF @ > 0 THEN DoneHandle ELSE @]
           st == SaveState(active_games, g, store)
           t == CancelTask(tasks, games[s].timer_task)
       IN IF active_games = 0
          THEN Commit(0, g, st, t, NoH, ledger, "none")
          ELSE /\ CanCreate(t)
               /\ Commit(active_games,
                         [g EXCEPT ![active_games].timer_task = NewId(t)], st,
                         Spawn(t, "next_guess", 0, ""), NoH, ledger, "none")
    /\ UNCHANGED <<engine, limit, started, stats, boots>>

\* lines 902-903
GuessWrong ==
    /\ engine = "bot" /\ h.kind = "guess" /\ h.pc = "wrong"
    /\ LET g == [games EXCEPT ![h.sid].idle = 0]
       IN Commit(active_games, g, SaveState(active_games, g, store), tasks, NoH,
                 ledger, "none")
    /\ UNCHANGED <<engine, limit, started, stats, boots>>

\* ------------------------------------------------------------ bot.py tasks
Ready(i) ==
    /\ tasks[i].kind /= "free"
    /\ tasks[i].pc = "sleep" => tasks[i].wake = 0

Finish(t, i) == [t EXCEPT ![i] = NoTask]

Sleep(t, i, d) == [t EXCEPT ![i].pc = "sleep", ![i].wake = d]

At(t, i, pc) == [t EXCEPT ![i].pc = pc, ![i].wake = 0]

\* del active_games[chat_id]; if game_states_collection: delete_one(...)
\* as the last statements of a task: KeyError ends the task before the
\* document is deleted.
DeleteAndFinish(i) ==
    IF active_games = 0
    THEN Commit(0, games, store, Finish(tasks, i), h, ledger, "none")
    ELSE Commit(0, games, NoDoc, Finish(tasks, i), h, ledger, "none")

\* start_game_countdown
CountdownStart(i) ==
    /\ engine = "bot" /\ tasks[i].kind = "countdown" /\ tasks[i].pc = "start"
    /\ Commit(active_games, games, store, Sleep(tasks, i, JoinWindow), h, ledger, "none")
    /\ UNCHANGED <<engine, limit, started, stats, boots>>

\* lines 458-459, reached when the first test fails or the game has started
WatchdogAtEnd(a, g, t, i) ==
    IF a /= 0
    THEN [gm |-> [g EXCEPT ![a].timer_task = NewId(t)],
          tk |-> Finish(Spawn(t, "watchdog", a, ""), i)]
    ELSE [gm |-> g, tk |-> Finish(t, i)]

CountdownExpire(i) ==
    /\ engine = "bot" /\ tasks[i].kind = "countdown" /\ tasks[i].pc = "sleep"
    /\ tasks[i].wake = 0
    /\ LET a == active_games IN
       IF a /= 0 /\ games[a].status = "waiting_for_players"
       THEN LET g == [games EXCEPT ![a].status = "in_progress"]
                st == SaveState(a, g, store)
            IN IF Len(g[a].players) = 0
               THEN Commit(a, g, st, At(tasks, i, "cancel"), h, ledger, "no_players")
               ELSE Commit(a, g, st, At(tasks, i, "begin"), h, ledger, "game_started")
       ELSE /\ CanCreate(tasks)
            /\ LET w == WatchdogAtEnd(a, games, tasks, i)
               IN Commit(a, w.gm, store, w.tk, h, ledger, "none")
    /\ UNCHANGED <<engine, limit, started, stats, boots>>

CountdownCancel(i) ==
    /\ engine = "bot" /\ tasks[i].kind = "countdown" /\ tasks[i].pc = "cancel"
    /\ DeleteAndFinish(i)
    /\ UNCHANGED <<engine, limit, started, stats, boots>>

\* start_number_guessing_game, up to the announcement
NumberBegin(i) ==
    /\ engine = "bot" /\ tasks[i].kind = "countdown" /\ tasks[i].pc = "begin"
    /\ tasks[i].gt = "number_guessing"
    /\ LET a == active_games IN
       IF a = 0
       THEN Commit(a, games, store, Finish(tasks, i), h, ledger, "none")
       ELSE \E n \in Secrets :
            LET g == [games EXCEPT ![a].secret_number = n,
                                   ![a].guesses_made = ZeroAttempts,
                                   ![a].idle = 0]
            IN Commit(a, g, SaveState(a, g, store), At(tasks, i, "ng_timer"), h,
                      ledger, "number_started")
    /\ UNCHANGED <<engine, limit, started, stats, boots>>

\* line 918 and then lines 458-459 of the countdown: two watchdog tasks
NumberTimer(i) ==
    /\ engine = "bot" /\ tasks[i].kind = "countdown" /\ tasks[i].pc = "ng_timer"
    /\ LET a == active_games IN
       IF a = 0
       THEN Commit(a, games, store, Finish(tasks, i), h, ledger, "none")
       ELSE /\ Cardinality(FreeIds(tasks)) >= 2
            /\ LET t1 == Spawn(tasks, "watchdog", a, "")
                   g1 == [games EXCEPT ![a].timer_task = NewId(tasks)]
                   w == WatchdogAtEnd(a, g1, t1, i)
               IN Commit(a, w.gm, store, w.tk, h, ledger, "none")
    /\ UNCHANGED <<engine, limit, started, stats, boots>>

\* The watchdog without the age test of line 473.
WatchdogCheckNoAge(i) ==
    /\ engine = "bot" /\ tasks[i].kind = "watchdog" /\ tasks[i].pc \in {"start", "sleep"}
    /\ Ready(i)
    /\ LET a == active_games IN
       IF a /= 0 /\ games[a].status = "in_progress"
       THEN Commit(a, games, store, At(tasks, i, "end"), h, ledger, "inactivity")
       ELSE Commit(a, games, store, Finish(tasks, i), h, ledger, "none")
    /\ UNCHANGED <<engine, limit, started, stats, boots>>

\* auto_end_game_timer
WatchdogCheck(i) ==
    /\ engine = "bot" /\ tasks[i].kind = "watchdog" /\ tasks[i].pc \in {"start", "sleep"}
    /\ Ready(i)
    /\ LET a == active_games IN
       IF a /= 0 /\ games[a].status = "in_progress"
       THEN IF games[a].idle >= InactivityLimit
            THEN Commit(a, games, store, At(tasks, i, "end"), h, ledger, "inactivity")
            ELSE Commit(a, games, store, Sleep(tasks, i, WatchdogPeriod), h, ledger, "none")
       ELSE Commit(a, games, store, Finish(tasks, i), h, ledger, "none")
    /\ UNCHANGED <<engine, limit, started, stats, boots>>

WatchdogEnd(i) ==
    /\ engine = "bot" /\ tasks[i].kind = "watchdog" /\ tasks[i].pc = "end"
    /\ DeleteAndFinish(i)
    /\ UNCHANGED <<engine, limit, started, stats, boots>>

\* line 501: random.sample(questions, min(len(questions), 10)); a bank here
\* holds questions of one kind, so every sample of a size is the same list
Sample(bank) == SubSeq(bank, 1, Min(Len(bank), MaxQuestions))

\* start_quiz_game, then lines 458-459 of the countdown; banks is what the
\* content channel may hold
QuizBeginFrom(i, banks) ==
    /\ engine = "bot" /\ tasks[i].kind = "countdown" /\ tasks[i].pc = "begin"
    /\ tasks[i].gt = "quiz"
    /\ LET a == active_games IN
       \E bank \in banks :
         IF bank = <<>>
         THEN Commit(a, games, store, At(tasks, i, "cancel"), h, ledger, "no_content")
         ELSE IF a = 0
         THEN Commit(a, games, store, Finish(tasks, i), h, ledger, "none")
         ELSE /\ Cardinality(FreeIds(tasks)) >= 2
              /\ LET g == [games EXCEPT ![a].current_round = 0,
                                        ![a].quiz_data = Sample(bank),
                                        ![a].cq = [type |-> "empty", q |-> 0],
                                        ![a].answered_this_round = FALSE,
                                        ![a].idle = 0]
                     st == SaveState(a, g, store)
                     t1 == Spawn(tasks, "quiz", a, "")
                     g1 == [g EXCEPT ![a].timer_task = NewId(tasks)]
                     w == WatchdogAtEnd(a, g1, t1, i)
                 IN Commit(a, w.gm, st, w.tk, h, ledger, "none")
    /\ UNCHANGED <<engine, limit, started, stats, boots>>

QuizBegin(i) == QuizBeginFrom(i, QuizBanks)

\* send_next_quiz_question_with_timer: the loop test and the body up to the
\* await that sends the question; game_state is bound to the room's session.
QuizHead(g, st, i, msg) ==
    LET a == active_games IN
    IF a /= 0 /\ g[a].status = "in_progress" /\ g[a].game_type = "quiz"
    THEN IF g[a].cq.type = "absent"
         THEN Commit(a, g, st, Finish(tasks, i), h, ledger, msg)
         ELSE IF g[a].current_round >= Len(g[a].quiz_data)
         THEN Commit(a, g, st, [At(tasks, i, "end") EXCEPT ![i].sid = a], h, ledger,
                     "quiz_over")
         ELSE Commit(a, g, st,
                     [At(tasks, i, "sent") EXCEPT ![i].sid = a,
                                                  ![i].q = g[a].current_round + 1],
                     h, ledger,
                     IF g[a].quiz_data[g[a].current_round + 1] = "poll"
                     THEN "poll" ELSE "question")
    ELSE Commit(a, g, st, Finish(tasks, i), h, ledger, msg)

QuizStart(i) ==
    /\ engine = "bot" /\ tasks[i].kind = "quiz" /\ tasks[i].pc = "start"
    /\ QuizHead(games, store, i, "none")
    /\ UNCHANGED <<engine, limit, started, stats, boots>>

\* lines 542-561: the question is recorded, the flag reset, the state saved
QuizSent(i) ==
    /\ engine = "bot" /\ tasks[i].kind = "quiz" /\ tasks[i].pc = "sent"
    /\ LET s == tasks[i].sid
           g == [games EXCEPT ![s].cq = [type |-> games[s].quiz_data[tasks[i].q],
                                         q |-> tasks[i].q],
                              ![s].answered_this_round = FALSE,
                              ![s].idle = 0]
       IN Commit(active_games, g, SaveState(active_games, g, store),
                 Sleep(tasks, i, QuizWindow), h, ledger, "none")
    /\ UNCHANGED <<engine, limit, started, stats, boots>>

\* the loop without the increment of line 567
QuizSameRound(g, i) == g

\* lines 564-567 and the next loop test
QuizNextRound(g, i) ==
    [g EXCEPT ![tasks[i].sid].current_round = @ + 1]

QuizWake(i) ==
    /\ engine = "bot" /\ tasks[i].kind = "quiz" /\ tasks[i].pc = "sleep"
    /\ tasks[i].wake = 0
    /\ LET gs == games[tasks[i].sid]
       IN IF gs.cq.type = "text" /\ ~gs.answered_this_round
          THEN Commit(active_games, games, store, At(tasks, i, "timeup"), h, ledger,
                      "time_up")
          ELSE QuizHead(QuizNextRound(games, i), store, i, "none")
    /\ UNCHANGED <<engine, limit, started, stats, boots>>

QuizTimeUp(i) ==
    /\ engine = "bot" /\ tasks[i].kind = "quiz" /\ tasks[i].pc = "timeup"
    /\ QuizHead(QuizNextRound(games, i), store, i, "none")
    /\ UNCHANGED <<engine, limit, started, stats, boots>>

QuizEnd(i) ==
    /\ engine = "bot" /\ tasks[i].kind = "quiz" /\ tasks[i].pc = "end"
    /\ DeleteAndFinish(i)
    /\ UNCHANGED <<engine, limit, started, stats, boots>>

\* start_wordchain_game, up to the announcement: the state is saved before
\* the players are shuffled.
WordBegin(i) ==
    /\ engine = "bot" /\ tasks[i].kind = "countdown" /\ tasks[i].pc = "begin"
    /\ tasks[i].gt = "wordchain"
    /\ LET a == active_games IN
       \E bank \in WordBanks :
         IF bank = {}
         THEN Commit(a, games, store, At(tasks, i, "cancel"), h, ledger, "no_content")
         ELSE IF a = 0
         THEN Commit(a, games, store, Finish(tasks, i), h, ledger, "none")
         ELSE \E start_word \in bank :
              LET g == [games EXCEPT ![a].current_word = Lower(Strip(start_word)),
                                     ![a].turn_index = 0,
                                     ![a].idle = 0]
                  st == SaveState(a, g, store)
              IN IF Len(g[a].players) = 0
                 THEN Commit(a, g, st, At(tasks, i, "cancel"), h, ledger, "no_players")
                 ELSE \E order \in Shuffles(g[a].players) :
                        Commit(a, [g EXCEPT ![a].players = order], st,
                               At(tasks, i, "wc_timer"), h, ledger, "wc_started")
    /\ UNCHANGED <<engine, limit, started, stats, boots>>

\* lines 677-679, then lines 458-459 of the countdown
WordTimer(i) ==
    /\ engine = "bot" /\ tasks[i].kind = "countdown" /\ tasks[i].pc = "wc_timer"
    /\ LET a == active_games IN
       IF a = 0
       THEN Commit(a, games, store, Finish(tasks, i), h, ledger, "none")
       ELSE /\ Cardinality(FreeIds(tasks)) >= 2
            /\ LET t1 == Spawn(tasks, "turn_wc", 0, "")
                   g1 == [games EXCEPT ![a].timer_task = NewId(tasks)]
                   w == WatchdogAtEnd(a, g1, t1, i)
               IN Commit(a, w.gm, store, w.tk, h, ledger, "none")
    /\ UNCHANGED <<engine, limit, started, stats, boots>>

\* turn_timer(chat_id, 60, bot, "wordchain")
TurnStart(i) ==
    /\ engine = "bot" /\ tasks[i].kind = "turn_wc" /\ tasks[i].pc = "start"
    /\ Commit(active_games, games, store, Sleep(tasks, i, TurnTimeout), h, ledger, "none")
    /\ UNCHANGED <<engine, limit, started, stats, boots>>

\* lines 762-772: IndexError at line 771 ends the task; q is the user of
\* current_player, which the coroutine holds over the await
TurnExpire(i) ==
    /\ engine = "bot" /\ tasks[i].kind = "turn_wc" /\ tasks[i].pc = "sleep"
    /\ tasks[i].wake = 0
    /\ LET a == active_games IN
       IF /\ a /= 0 /\ games[a].status = "in_progress"
          /\ games[a].game_type = "wordchain"
          /\ games[a].players /= <<>>
          /\ games[a].current_word /= NoWord
          /\ games[a].turn_index < Len(games[a].players)
       THEN Commit(a, games, store,
                   [At(tasks, i, "pop") EXCEPT
                       ![i].sid = a,
                       ![i].q = games[a].players[games[a].turn_index + 1].user_id],
                   h, ledger, "timed_out")
       ELSE Commit(a, games, store, Finish(tasks, i), h, ledger, "none")
    /\ UNCHANGED <<engine, limit, started, stats, boots>>

\* lines 775-793: IndexError at line 775 ends the task
TurnPop(i) ==
    /\ engine = "bot" /\ tasks[i].kind = "turn_wc" /\ tasks[i].pc = "pop"
    /\ LET s == tasks[i].sid
           gs == games[s]
       IN IF gs.turn_index >= Len(gs.players)
          THEN Commit(active_games, games, store, Finish(tasks, i), h, ledger, "none")
          ELSE LET left == Pop(gs.players, gs.turn_index)
                   g == [games EXCEPT ![s].players = left, ![s].idle = 0]
                   st == SaveState(active_games, g, store)
               IN IF Len(left) < 2
                  THEN Commit(active_games, g, st, At(tasks, i, "end"), h, ledger,
                              "wc_over")
                  ELSE Commit(active_games,
                              [g EXCEPT ![s].turn_index =
                                            IF @ >= Len(left) THEN 0 ELSE @],
                              st, At(tasks, i, "rearm"), h, ledger, "next_turn")
    /\ UNCHANGED <<engine, limit, started, stats, boots>>

\* line 795
TurnRearm(i) ==
    /\ engine = "bot" /\ tasks[i].kind = "turn_wc" /\ tasks[i].pc = "rearm"
    /\ LET t == Spawn(tasks, "turn_wc", 0, "")
       IN /\ CanCreate(tasks)
          /\ Commit(active_games, [games EXCEPT ![tasks[i].sid].timer_task = NewId(tasks)],
                    store, Finish(t, i), h, ledger, "none")
    /\ UNCHANGED <<engine, limit, started, stats, boots>>

TurnEnd(i) ==
    /\ engine = "bot" /\ tasks[i].kind = "turn_wc" /\ tasks[i].pc = "end"
    /\ DeleteAndFinish(i)
    /\ UNCHANGED <<engine, limit, started, stats, boots>>

\* start_guessing_game, then lines 458-459 of the countdown
GuessBegin(i) ==
    /\ engine = "bot" /\ tasks[i].kind = "countdown" /\ tasks[i].pc = "begin"
    /\ tasks[i].gt = "guessing"
    /\ LET a == active_games IN
       \E n \in GuessBanks :
         IF n = 0
         THEN Commit(a, games, store, At(tasks, i, "cancel"), h, ledger, "no_content")
         ELSE IF a = 0
         THEN Commit(a, games, store, Finish(tasks, i), h, ledger, "none")
         ELSE /\ Cardinality(FreeIds(tasks)) >= 2
              /\ LET g == [games EXCEPT ![a].guessing_len = n,
                                        ![a].current_round = 0,
                                        ![a].cgi = 0,
                                        ![a].attempts = ZeroAttempts,
                                        ![a].guessed_this_round = FALSE,
                                        ![a].idle = 0]
                     st == SaveState(a, g, store)
                     t1 == Spawn(tasks, "next_guess", 0, "")
                     g1 == [g EXCEPT ![a].timer_task = NewId(tasks)]
                     w == WatchdogAtEnd(a, g1, t1, i)
                 IN Commit(a, w.gm, st, w.tk, h, ledger, "none")
    /\ UNCHANGED <<engine, limit, started, stats, boots>>

\* send_next_guess_item, up to the message with the hint
NextGuessStart(i) ==
    /\ engine = "bot" /\ tasks[i].kind = "next_guess" /\ tasks[i].pc = "start"
    /\ LET a == active_games IN
       IF /\ a /= 0 /\ games[a].status = "in_progress"
          /\ games[a].game_type = "guessing" /\ games[a].cgi /= -1
       THEN IF games[a].current_round >= games[a].guessing_len
            THEN Commit(a, games, store, [At(tasks, i, "end") EXCEPT ![i].sid = a], h,
                        ledger, "guess_over")
            ELSE Commit(a, games, store,
                        [At(tasks, i, "sent") EXCEPT ![i].sid = a,
                                                     ![i].q = games[a].current_round + 1],
                        h, ledger, "hint")
       ELSE Commit(a, games, store, Finish(tasks, i), h, ledger, "none")
    /\ UNCHANGED <<engine, limit, started, stats, boots>>

\* lines 850-864: the task in timer_task is cancelled, whichever it is; when
\* it is this very task the cancellation finds no await left to interrupt.
NextGuessSent(i) ==
    /\ engine = "bot" /\ tasks[i].kind = "next_guess" /\ tasks[i].pc = "sent"
    /\ LET s == tasks[i].sid
           old == games[s].timer_task
           t0 == IF old = i THEN tasks ELSE CancelTask(tasks, old)
           g == [games EXCEPT ![s].cgi = tasks[i].q,
                              ![s].guessed_this_round = FALSE,
                              ![s].attempts = ZeroAttempts,
                              ![s].idle = 0,
                              ![s].timer_task = NewId(t0)]
       IN /\ CanCreate(t0)
          /\ Commit(active_games, g, SaveState(active_games, g, store),
                    Finish(Spawn(t0, "turn_guess", 0, ""), i), h, ledger, "none")
    /\ UNCHANGED <<engine, limit, started, stats, boots>>

NextGuessEnd(i) ==
    /\ engine = "bot" /\ tasks[i].kind = "next_guess" /\ tasks[i].pc = "end"
    /\ DeleteAndFinish(i)
    /\ UNCHANGED <<engine, limit, started, stats, boots>>

\* turn_timer(chat_id, 60, bot, "guessing")
RoundStart(i) ==
    /\ engine = "bot" /\ tasks[i].kind = "turn_guess" /\ tasks[i].pc = "start"
    /\ Commit(active_games, games, store, Sleep(tasks, i, GuessTimeout), h, ledger, "none")
    /\ UNCHANGED <<engine, limit, started, stats, boots>>

\* lines 804-808: KeyError at line 808 when the room has no session
RoundAdvance(s, i, msg) ==
    LET g == [games EXCEPT ![s].current_round = @ + 1, ![s].idle = 0]
        st == SaveState(active_games, g, store)
    IN IF active_games = 0
       THEN Commit(0, g, st, Finish(tasks, i), h, ledger, msg)
       ELSE /\ CanCreate(tasks)
            /\ Commit(active_games,
                      [g EXCEPT ![active_games].timer_task = NewId(tasks)], st,
                      Finish(Spawn(tasks, "next_guess", 0, ""), i), h, ledger, msg)

RoundExpire(i) ==
    /\ engine = "bot" /\ tasks[i].kind = "turn_guess" /\ tasks[i].pc = "sleep"
    /\ tasks[i].wake = 0
    /\ LET a == active_games IN
       IF /\ a /= 0 /\ games[a].status = "in_progress"
          /\ games[a].game_type = "guessing" /\ games[a].cgi /= -1
       THEN IF ~games[a].guessed_this_round
            THEN IF games[a].cgi = 0
                 THEN Commit(a, games, store, Finish(tasks, i), h, ledger, "none")
                 ELSE Commit(a, games, store, [At(tasks, i, "advance") EXCEPT ![i].sid = a],
                             h, ledger, "time_up")
            ELSE RoundAdvance(a, i, "none")
       ELSE Commit(a, games, store, Finish(tasks, i), h, ledger, "none")
    /\ UNCHANGED <<engine, limit, started, stats, boots>>

RoundTimeUp(i) ==
    /\ engine = "bot" /\ tasks[i].kind = "turn_guess" /\ tasks[i].pc = "advance"
    /\ RoundAdvance(tasks[i].sid, i, "none")
    /\ UNCHANGED <<engine, limit, started, stats, boots>>

\* ------------------------------------------- main.py, games.py, database.py
UpperChar(c) == IF c = "a" THEN "A" ELSE IF c = "e" THEN "E" ELSE c

Upper(w) == [k \in 1..Len(w) |-> UpperChar(w[k])]

\* self.__class__.__name__.lower() of the class create_game makes for a type
ClassNameLower(gt) ==
    IF gt = "wordchain" THEN "wordchaingame"
    ELSE IF gt = "guessing" THEN "guessinggame"
    ELSE "wordcorrectiongame"

\* BaseGame.get_game_data_for_db
GameDataForDb(g) ==
    [Blank EXCEPT !.id = g.id, !.game_type = ClassNameLower(g.game_type),
                  !.answer = g.answer,
                  !.players = g.players, !.score = g.score,
                  !.turn_index = g.turn_index, !.status = g.status, !.idle = g.idle]

\* MongoDB.save_game_state: replace_one by _id with upsert; the unique index
\* on group_id refuses a second document for the room, and the error is
\* swallowed.
SaveGameState(g, st) ==
    IF st.status = "nodoc" \/ st.id = g.id THEN GameDataForDb(g) ELSE st

\* MongoDB.delete_game_state
DeleteGameState(gid, st) ==
    IF st.status /= "nodoc" /\ st.id = gid THEN NoDoc ELSE st

\* BaseGame.next_turn
NextTurn(g) ==
    IF g.players /= <<>>
    THEN [g EXCEPT !.turn_index = (@ + 1) % Len(g.players)]
    ELSE g

\* GuessingGame.get_display_word() with the blanks removed equals the answer
DisplayComplete(g) == \A k \in 1..Len(g.answer) : g.answer[k] \in g.guessed_letters

InWord(c, w) == \E k \in 1..Len(w) : w[k] = c

\* is_answer_correct of the three game classes
IsAnswerCorrect(g, text) ==
    LET user_answer == Upper(text) IN
    IF g.game_type = "wordchain"
    THEN IF g.current_word = NoWord
         THEN user_answer = g.answer
         ELSE user_answer[1] = g.current_word[Len(g.current_word)]
              /\ user_answer = g.answer
    ELSE IF g.game_type = "guessing"
    THEN IF Len(user_answer) = 1 /\ IsAlpha(user_answer)
         THEN InWord(user_answer[1], g.answer)
         ELSE user_answer = g.answer
    ELSE user_answer = g.answer

\* the letter GuessingGame.is_answer_correct adds to guessed_letters
Guessed(g, text) ==
    IF /\ g.game_type = "guessing" /\ Len(text) = 1 /\ IsAlpha(Upper(text))
       /\ InWord(Upper(text)[1], g.answer)
    THEN [g EXCEPT !.guessed_letters = @ \cup {Upper(text)[1]}]
    ELSE g

\* job.schedule_removal() for the jobs of a name: those still in the queue
RemoveJobs(t, kind, gid) ==
    [i \in TaskIds |->
        IF t[i].kind = kind /\ t[i].pc = "sleep" /\ t[i].sid = gid THEN NoTask
        ELSE t[i]]

\* job_queue.run_once
RunOnce(t, kind, gid, delay) ==
    [t EXCEPT ![NewId(t)] = [kind |-> kind, pc |-> "sleep", wake |-> delay,
                             sid |-> gid, gt |-> "", q |-> 0]]

\* start_new_game.  content is what fetch_game_data_from_channel yields.
MainStartRejected ==
    /\ engine = "main" /\ h = NoH
    /\ active_games /= 0
    /\ Commit(active_games, games, store, tasks, NoH, ledger, "conflict")
    /\ UNCHANGED <<engine, limit, started, stats, boots>>

MainStart(gt, content) ==
    /\ engine = "main" /\ h = NoH
    /\ active_games = 0
    /\ IF content = NoWord
       THEN /\ Commit(0, games, store, tasks, NoH, ledger, "no_content")
            /\ UNCHANGED started
       ELSE /\ started < limit
            /\ LET s == started + 1
                   g == [games EXCEPT ![s] =
                            [Blank EXCEPT !.id = s, !.game_type = gt,
                                          !.answer = Upper(content),
                                          !.status = "waiting_for_players"]]
               IN /\ started' = s
                  /\ Commit(s, g, SaveGameState(g[s], store), tasks,
                            [NoH EXCEPT !.kind = "mstart", !.pc = "schedule", !.sid = s],
                            ledger, "join_prompt")
    /\ UNCHANGED <<engine, limit, stats, boots>>

\* lines 388-393: the first join alert, one second later
MainStartSchedule ==
    /\ engine = "main" /\ h.kind = "mstart"
    /\ CanCreate(tasks)
    /\ Commit(active_games, games, store, RunOnce(tasks, "join_alert", h.sid, 0),
              NoH, ledger, "none")
    /\ UNCHANGED <<engine, limit, started, stats, boots>>

\* join_game, BaseGame.add_player: membership is tested on the user id
MainJoin(u, n) ==
    /\ engine = "main" /\ h = NoH
    /\ LET a == active_games IN
       IF a = 0
       THEN Commit(a, games, store, tasks, NoH, ledger, "no_game")
       ELSE IF games[a].status /= "waiting_for_players"
       THEN Commit(a, games, store, tasks, NoH, ledger, "join_closed")
       ELSE IF u \notin UserIds(games[a])
       THEN Commit(a, [games EXCEPT ![a].players = Append(@, PlayerData(u, n))],
                   store, tasks,
                   [NoH EXCEPT !.kind = "mjoin", !.pc = "save", !.sid = a],
                   ledger, "joined")
       ELSE Commit(a, games, store, tasks, NoH, ledger, "already_joined")
    /\ UNCHANGED <<engine, limit, started, stats, boots>>

MainJoinSave ==
    /\ engine = "main" /\ h.kind = "mjoin"
    /\ Commit(active_games, games, SaveGameState(games[h.sid], store), tasks, NoH,
              ledger, "none")
    /\ UNCHANGED <<engine, limit, started, stats, boots>>

\* end_game_logic, entered from /endgame and from handle_message
EndGameLogic ==
    IF active_games /= 0
    THEN Commit(active_games, games, store, tasks,
                [NoH EXCEPT !.kind = "mend", !.pc = "results", !.sid = active_games],
                ledger, "ended")
    ELSE Commit(0, games, store, tasks, NoH, ledger, "no_game")

\* endgame: admin is the sender's role in the chat, which the handler never
\* looks up
MainEndGame(admin) ==
    /\ engine = "main" /\ h = NoH
    /\ admin \in BOOLEAN
    /\ EndGameLogic
    /\ UNCHANGED <<engine, limit, started, stats, boots>>

MainEndBegin ==
    /\ engine = "main" /\ h.kind = "mend" /\ h.pc = "begin"
    /\ EndGameLogic
    /\ UNCHANGED <<engine, limit, started, stats, boots>>

\* line 278: the first player of sorted(players, key=score, reverse=True);
\* the sort is stable, so of equal scores the earlier joiner comes first
TopRanked(g) ==
    LET best == CHOOSE k \in 1..Len(g.players) :
                    /\ \A j \in 1..Len(g.players) :
                           g.score[g.players[j].user_id] <= g.score[g.players[k].user_id]
                    /\ \A j \in 1..(k - 1) :
                           g.score[g.players[j].user_id] < g.score[g.players[k].user_id]
    IN g.players[best].user_id

\* database.py update_user_stats: $inc of games_played and games_won
UpdateUserStats(st, u, won) ==
    [st EXCEPT ![u] = [games_played |-> @.games_played + 1,
                       games_won |-> @.games_won + won]]

\* lines 275-287: update_user_stats for each player: games_played 1, games_won 1
\* for the first of the ranking, total_score the player's score
MainEndResults ==
    /\ engine = "main" /\ h.kind = "mend" /\ h.pc = "results"
    /\ LET g == games[h.sid]
           led == [u \in Users |->
                     IF u \in UserIds(g) THEN ledger[u] + g.score[u] ELSE ledger[u]]
       IN /\ Commit(active_games, games, store, tasks, [h EXCEPT !.pc = "delete"], led,
                    IF g.players /= <<>> THEN "results" ELSE "no_players")
          /\ boots' = boots
          /\ stats' = [u \in Users |->
                         IF u \in UserIds(g)
                         THEN UpdateUserStats(stats, u,
                                              IF u = TopRanked(g) THEN 1 ELSE 0)[u]
                         ELSE stats[u]]
    /\ UNCHANGED <<engine, limit, started>>

\* lines 289-298; KeyError at line 291 when the room has no session
MainEndDelete ==
    /\ engine = "main" /\ h.kind = "mend" /\ h.pc = "delete"
    /\ LET gid == games[h.sid].id
           st == DeleteGameState(gid, store)
       IN IF active_games = 0
          THEN Commit(0, games, st, tasks, NoH, ledger, "none")
          ELSE Commit(0, games, st,
                      RemoveJobs(RemoveJobs(tasks, "join_alert", gid), "turn_timeout", gid),
                      NoH, ledger, "log")
    /\ UNCHANGED <<engine, limit, started, stats, boots>>

\* handle_message, up to the first reply
MainMessage(u, text) ==
    /\ engine = "main" /\ h = NoH
    /\ active_games /= 0
    /\ LET a == active_games
           gs == games[a]
       IN IF gs.status = "in_progress" /\ gs.players /= <<>>
             /\ gs.players[gs.turn_index + 1].user_id = u
          THEN IF IsAnswerCorrect(gs, text)
               THEN /\ gs.score[u] < MaxWords * AnswerPoints
                    /\ Commit(a, [games EXCEPT ![a] = [Guessed(gs, text) EXCEPT
                                                          !.score[u] = @ + AnswerPoints]],
                              store, tasks,
                              [NoH EXCEPT !.kind = "mmsg", !.pc = "correct", !.sid = a,
                                          !.word = text],
                              ledger, "answer_correct")
               ELSE Commit(a, games, store, tasks,
                           [NoH EXCEPT !.kind = "mmsg", !.pc = "wrong", !.sid = a],
                           ledger, "answer_wrong")
          ELSE IF gs.status = "in_progress" /\ gs.players /= <<>>
          THEN Commit(a, games, store, tasks, NoH, ledger, "not_your_turn")
          ELSE Commit(a, games, store, tasks, NoH, ledger, "none")
    /\ UNCHANGED <<engine, limit, started, stats, boots>>

\* lines 443-457 and 469-472: the turn passes and the state is saved
PassTurn(g0) ==
    LET s == h.sid
        g == [g0 EXCEPT ![s] = [NextTurn(g0[s]) EXCEPT !.idle = 0]]
    IN Commit(active_games, g, SaveGameState(g[s], store), tasks,
              [h EXCEPT !.pc = "rearm"], ledger, "next_turn")

MainCorrect ==
    /\ engine = "main" /\ h.kind = "mmsg" /\ h.pc = "correct"
    /\ LET s == h.sid IN
       IF games[s].game_type = "guessing" /\ DisplayComplete(games[s])
       THEN Commit(active_games, games, store, tasks,
                   [h EXCEPT !.kind = "mend", !.pc = "begin"], ledger, "word_found")
       ELSE IF games[s].game_type = "wordchain"
       THEN PassTurn([games EXCEPT ![s].current_word = Upper(h.word)])
       ELSE PassTurn(games)
    /\ UNCHANGED <<engine, limit, started, stats, boots>>

MainWrong ==
    /\ engine = "main" /\ h.kind = "mmsg" /\ h.pc = "wrong"
    /\ PassTurn(games)
    /\ UNCHANGED <<engine, limit, started, stats, boots>>

\* lines 458-465 and 478-485: the queued turn jobs of the game are removed
\* and a new one is queued
MainRearm ==
    /\ engine = "main" /\ h.kind = "mmsg" /\ h.pc = "rearm"
    /\ LET gid == games[h.sid].id
           t == RemoveJobs(tasks, "turn_timeout", gid)
       IN /\ CanCreate(t)
          /\ Commit(active_games, games, store, RunOnce(t, "turn_timeout", gid, GameTurnTimeout),
                    NoH, ledger, "none")
    /\ UNCHANGED <<engine, limit, started, stats, boots>>

\* send_game_join_alerts(context, game): the job holds the game object
JoinAlertFire(i) ==
    /\ engine = "main" /\ tasks[i].kind = "join_alert"
    /\ tasks[i].pc = "sleep" /\ tasks[i].wake = 0
    /\ LET s == tasks[i].sid
           g == games[s]
           time_left == GameJoinWindow - g.idle
       IN IF g.status /= "waiting_for_players"
          THEN Commit(active_games, games, store, Finish(tasks, i), h, ledger, "none")
          ELSE IF time_left > 0
          THEN Commit(active_games, games, store,
                      [At(tasks, i, "resched") EXCEPT ![i].q = time_left], h, ledger,
                      "alert")
          ELSE IF Len(g.players) >= 1
          THEN Commit(active_games,
                      [games EXCEPT ![s].status = "in_progress", ![s].idle = 0], store,
                      At(tasks, i, "promote"), h, ledger, "game_started")
          ELSE Commit(active_games, games, store, At(tasks, i, "cancel"), h, ledger,
                      "cancelled")
    /\ UNCHANGED <<engine, limit, started, stats, boots>>

\* lines 200-207
JoinAlertResched(i) ==
    /\ engine = "main" /\ tasks[i].kind = "join_alert" /\ tasks[i].pc = "resched"
    /\ Commit(active_games, games, store,
              Sleep(tasks, i, Min(tasks[i].q, AlertPeriod)), h, ledger, "none")
    /\ UNCHANGED <<engine, limit, started, stats, boots>>

\* lines 182-189
JoinAlertPromote(i) ==
    /\ engine = "main" /\ tasks[i].kind = "join_alert" /\ tasks[i].pc = "promote"
    /\ LET g == games[tasks[i].sid]
       IN Commit(active_games, games, SaveGameState(g, store),
                 RunOnce(Finish(tasks, i), "turn_timeout", g.id, GameTurnTimeout), h, ledger,
                 "none")
    /\ UNCHANGED <<engine, limit, started, stats, boots>>

\* lines 192-196: the room's session is removed, whichever it is
JoinAlertCancel(i) ==
    /\ engine = "main" /\ tasks[i].kind = "join_alert" /\ tasks[i].pc = "cancel"
    /\ Commit(0, games, DeleteGameState(games[tasks[i].sid].id, store),
              Finish(tasks, i), h, ledger, "log")
    /\ UNCHANGED <<engine, limit, started, stats, boots>>

\* check_turn_timeout(context, game_id): the session read is the room's
TurnTimeoutFire(i) ==
    /\ engine = "main" /\ tasks[i].kind = "turn_timeout"
    /\ tasks[i].pc = "sleep" /\ tasks[i].wake = 0
    /\ LET a == active_games IN
       IF a = 0
       THEN Commit(a, games, store,
                   RemoveJobs(Finish(tasks, i), "turn_timeout", tasks[i].sid), h, ledger,
                   "none")
       ELSE IF games[a].status /= "in_progress"
       THEN Commit(a, games, store, Finish(tasks, i), h, ledger, "none")
       ELSE IF games[a].idle >= GameTurnTimeout
       THEN IF games[a].players /= <<>>
            THEN Commit(a, games, store, [At(tasks, i, "advance") EXCEPT ![i].sid = a],
                        h, ledger, "turn_lost")
            ELSE Commit(a, games, store, Finish(tasks, i), h, ledger, "stuck")
       ELSE Commit(a, games, store, Sleep(tasks, i, GameTurnTimeout - games[a].idle), h,
                   ledger, "none")
    /\ UNCHANGED <<engine, limit, started, stats, boots>>

\* lines 231-234
TurnTimeoutAdvance(i) ==
    /\ engine = "main" /\ tasks[i].kind = "turn_timeout" /\ tasks[i].pc = "advance"
    /\ LET s == tasks[i].sid
           g == [games EXCEPT ![s] = [NextTurn(games[s]) EXCEPT !.idle = 0]]
       IN Commit(active_games, g, SaveGameState(g[s], store), At(tasks, i, "rearm"), h,
                 ledger, "next_turn")
    /\ UNCHANGED <<engine, limit, started, stats, boots>>

\* lines 240-247
TurnTimeoutRearm(i) ==
    /\ engine = "main" /\ tasks[i].kind = "turn_timeout" /\ tasks[i].pc = "rearm"
    /\ LET gid == games[tasks[i].sid].id
       IN Commit(active_games, games, store,
                 RunOnce(Finish(RemoveJobs(tasks, "turn_timeout", gid), i),
                         "turn_timeout", gid, GameTurnTimeout),
                 h, ledger, "none")
    /\ UNCHANGED <<engine, limit, started, stats, boots>>

\* ---------------------------------------------------------------- restart
\* the session id a loaded session lives under
BootSid == 1

\* load_game_state_from_db: active_games is the documents of the collection,
\* as save_game_state_to_db wrote them (without timer_task)
LoadGameStateFromDb(doc) == doc

\* The process of bot.py ends and starts again: its tasks and the handler in
\* flight are gone, initialize_telegram_bot_application loads the sessions
\* and creates auto_end_game_timer for a session in progress, and no other
\* task.
Restart ==
    /\ engine = "bot"
    /\ boots < MaxBoots
    /\ boots' = boots + 1
    /\ LET a == IF store.status = "nodoc" THEN 0 ELSE BootSid
           g == [s \in Sids |-> IF s = a THEN LoadGameStateFromDb(store) ELSE Blank]
           t == [i \in TaskIds |-> NoTask]
       IN IF a /= 0 /\ g[a].status = "in_progress"
          THEN Commit(a, [g EXCEPT ![a].timer_task = NewId(t)], store,
                      Spawn(t, "watchdog", a, ""), NoH, ledger, "restart")
          ELSE Commit(a, g, store, t, NoH, ledger, "restart")
    /\ UNCHANGED <<engine, limit, started, stats>>

\* games.py create_game: None for a type that is none of the three names
CreateGame(gt) == gt \in {"wordchain", "guessing", "wordcorrection"}

\* main.py run_bot, lines 664-687, for one document: the session it puts in
\* active_games, or Blank for none.  create_game is given the stored
\* game_type; where it makes a game, line 682 reads game_instance.game_type,
\* which no game class defines, and the AttributeError skips line 687.
MainLoad(doc) ==
    IF ~CreateGame(doc.game_type) THEN Blank
    ELSE Blank

\* The process of main.py ends and starts again: the job queue and the
\* handler in flight are gone, and run_bot loads the documents.
MainRestart ==
    /\ engine = "main"
    /\ boots < MaxBoots
    /\ boots' = boots + 1
    /\ LET loaded == IF store.status = "nodoc" THEN Blank ELSE MainLoad(store)
           a == IF loaded.status = "dead" THEN 0 ELSE BootSid
       IN Commit(a, [s \in Sids |-> IF s = a THEN loaded ELSE Blank], store,
                 [i \in TaskIds |-> NoTask], NoH, ledger, "restart")
    /\ UNCHANGED <<engine, limit, started, stats>>

\* ------------------------------------------------------------------- time
Quiet ==
    /\ h = NoH
    /\ \A i \in TaskIds : tasks[i].kind /= "free" =>
           tasks[i].pc = "sleep" /\ tasks[i].wake > 0

\* Time passes when every coroutine is asleep, up to the earliest wake-up.
Sleeping == {i \in TaskIds : tasks[i].kind /= "free"}

NextWake == CHOOSE d \in {tasks[i].wake : i \in Sleeping} :
                \A i \in Sleeping : d <= tasks[i].wake

\* The age of last_activity_time is followed up to one watchdog period past
\* the inactivity limit, and one unit more: later ages are not told apart.
IdleCap == InactivityLimit + WatchdogPeriod + 1

Age(g, d) == IF g.status \in {"dead", "nodoc"} THEN g
             ELSE [g EXCEPT !.idle = Min(@ + d, IdleCap)]

TickBy(d) ==
    /\ Quiet
    /\ Sleeping /= {}
    /\ tasks' = [i \in TaskIds |->
                   IF tasks[i].kind = "free" THEN tasks[i]
                   ELSE [tasks[i] EXCEPT !.wake = @ - d]]
    /\ games' = [s \in Sids |-> Age(games[s], d)]
    /\ store' = Age(store, d)
    /\ out' = "none"
    /\ UNCHANGED <<engine, limit, active_games, h, ledger, started, stats, boots>>

Tick == Sleeping /= {} /\ TickBy(NextWake)

\* Time passes without reaching the earliest wake-up: the next update arrives
\* at any moment between two wake-ups.
Drift == Sleeping /= {} /\ \E d \in 1..(NextWake - 1) : TickBy(d)

Next ==
    \/ StartGameRejected
    \/ \E gt \in GameTypes : StartGameCreate(gt)
    \/ StartGameCountdown
    \/ \E u \in Users : \E n \in Names(u) : JoinGame(u, n)
    \/ \E admin \in BOOLEAN : EndGameCommand(admin)
    \/ \E u \in Users, x \in NumberInputs \cup {-1} : NumberGuess(u, x)
    \/ NumberWon
    \/ \E u \in Users, ans \in 0..MaxRounds : QuizAnswer(u, ans)
    \/ \E u \in Users, pq \in 1..MaxRounds, right \in BOOLEAN : PollAnswer(u, pq, right)
    \/ QuizAward
    \/ \E u \in Users, w \in UserWords : WordAnswer(u, w)
    \/ WordAccept
    \/ WordReject
    \/ WordRearm
    \/ WordEnd
    \/ \E u \in Users, ans \in 0..MaxRounds : GuessAnswer(u, ans)
    \/ GuessWon
    \/ GuessWrong
    \/ MainStartRejected
    \/ \E gt \in MainGameTypes, content \in MainContent : MainStart(gt, content)
    \/ MainStartSchedule
    \/ \E u \in Users : \E n \in Names(u) : MainJoin(u, n)
    \/ MainJoinSave
    \/ \E admin \in BOOLEAN : MainEndGame(admin)
    \/ MainEndBegin
    \/ MainEndResults
    \/ MainEndDelete
    \/ \E u \in Users, text \in MainTexts : MainMessage(u, text)
    \/ MainCorrect
    \/ MainWrong
    \/ MainRearm
    \/ \E i \in TaskIds :
        \/ CountdownStart(i)
        \/ CountdownExpire(i)
        \/ CountdownCancel(i)
        \/ NumberBegin(i)
        \/ NumberTimer(i)
        \/ QuizBegin(i)
        \/ QuizStart(i)
        \/ QuizSent(i)
        \/ QuizWake(i)
        \/ QuizTimeUp(i)
        \/ QuizEnd(i)
        \/ WordBegin(i)
        \/ WordTimer(i)
        \/ TurnStart(i)
        \/ TurnExpire(i)
        \/ TurnPop(i)
        \/ TurnRearm(i)
        \/ TurnEnd(i)
        \/ GuessBegin(i)
        \/ NextGuessStart(i)
        \/ NextGuessSent(i)
        \/ NextGuessEnd(i)
        \/ RoundStart(i)
        \/ RoundExpire(i)
        \/ RoundTimeUp(i)
        \/ WatchdogCheck(i)
        \/ WatchdogEnd(i)
        \/ JoinAlertFire(i)
        \/ JoinAlertResched(i)
        \/ JoinAlertPromote(i)
        \/ JoinAlertCancel(i)
        \/ TurnTimeoutFire(i)
        \/ TurnTimeoutAdvance(i)
        \/ TurnTimeoutRearm(i)
    \/ Tick

Spec == Init /\ [][Next]_vars

\* Runs with several sessions, one after the other, in the room: the
\* sessions are created, joined, promoted and ended, and the number game is
\* played.
InitRoom ==
    /\ engine \in {"bot", "main"}
    /\ limit = MaxGames
    /\ active_games = 0
    /\ games = [s \in Sids |-> Blank]
    /\ store = NoDoc
    /\ tasks = [i \in TaskIds |-> NoTask]
    /\ h = NoH
    /\ ledger = [u \in Users |-> 0]
    /\ started = 0
    /\ stats = NoStats
    /\ boots = 0
    /\ out = "none"

NextRoom ==
    \/ StartGameRejected
    \/ StartGameCreate("number_guessing")
    \/ StartGameCountdown
    \/ \E u \in Users : \E n \in Names(u) : JoinGame(u, n)
    \/ \E admin \in BOOLEAN : EndGameCommand(admin)
    \/ \E u \in Users, x \in NumberInputs \cup {-1} : NumberGuess(u, x)
    \/ NumberWon
    \/ MainStartRejected
    \/ \E content \in MainContent : MainStart("wordcorrection", content)
    \/ MainStartSchedule
    \/ \E u \in Users : \E n \in Names(u) : MainJoin(u, n)
    \/ MainJoinSave
    \/ \E admin \in BOOLEAN : MainEndGame(admin)
    \/ MainEndResults
    \/ MainEndDelete
    \/ \E i \in TaskIds :
        \/ CountdownStart(i)
        \/ CountdownExpire(i)
        \/ CountdownCancel(i)
        \/ NumberBegin(i)
        \/ NumberTimer(i)
        \/ WatchdogCheck(i)
        \/ WatchdogEnd(i)
        \/ JoinAlertFire(i)
        \/ JoinAlertResched(i)
        \/ JoinAlertPromote(i)
        \/ JoinAlertCancel(i)
        \/ TurnTimeoutFire(i)
        \/ TurnTimeoutAdvance(i)
        \/ TurnTimeoutRearm(i)
    \/ Tick

SpecRoom == InitRoom /\ [][NextRoom]_vars

\* Runs in which the process is started again: the word chain of bot.py and
\* the guessing game of main.py.
NextBoot ==
    \/ Restart
    \/ MainRestart
    \/ StartGameRejected
    \/ StartGameCreate("wordchain")
    \/ StartGameCountdown
    \/ \E u \in Users : \E n \in Names(u) : JoinGame(u, n)
    \/ \E admin \in BOOLEAN : EndGameCommand(admin)
    \/ \E u \in Users, w \in UserWords : WordAnswer(u, w)
    \/ WordAccept
    \/ WordReject
    \/ WordRearm
    \/ WordEnd
    \/ MainStartRejected
    \/ \E content \in MainContent : MainStart("guessing", content)
    \/ MainStartSchedule
    \/ \E u \in Users : \E n \in Names(u) : MainJoin(u, n)
    \/ MainJoinSave
    \/ \E admin \in BOOLEAN : MainEndGame(admin)
    \/ MainEndBegin
    \/ MainEndResults
    \/ MainEndDelete
    \/ \E u \in Users, text \in MainTexts : MainMessage(u, text)
    \/ MainCorrect
    \/ MainWrong
    \/ MainRearm
    \/ \E i \in TaskIds :
        \/ CountdownStart(i)
        \/ CountdownExpire(i)
        \/ CountdownCancel(i)
        \/ WordBegin(i)
        \/ WordTimer(i)
        \/ TurnStart(i)
        \/ TurnExpire(i)
        \/ TurnPop(i)
        \/ TurnRearm(i)
        \/ TurnEnd(i)
        \/ WatchdogCheck(i)
        \/ WatchdogEnd(i)
        \/ JoinAlertFire(i)
        \/ JoinAlertResched(i)
        \/ JoinAlertPromote(i)
        \/ JoinAlertCancel(i)
        \/ TurnTimeoutFire(i)
        \/ TurnTimeoutAdvance(i)
        \/ TurnTimeoutRearm(i)
    \/ Tick

SpecBoot == Init /\ [][NextBoot]_vars

\* Runs of the number game alone, with long series of guesses.
InitPoints ==
    /\ engine = "bot"
    /\ limit = PlayGames
    /\ active_games = 0
    /\ games = [s \in Sids |-> Blank]
    /\ store = NoDoc
    /\ tasks = [i \in TaskIds |-> NoTask]
    /\ h = NoH
    /\ ledger = [u \in Users |-> 0]
    /\ started = 0
    /\ stats = NoStats
    /\ boots = 0
    /\ out = "none"

NextPoints ==
    \/ StartGameCreate("number_guessing")
    \/ StartGameCountdown
    \/ \E u \in Users : JoinGame(u, "n1")
    \/ \E u \in Users, x \in NumberInputs \cup {-1} : NumberGuessUpTo(u, x, MaxGuesses)
    \/ NumberWon
    \/ \E i \in TaskIds :
        \/ CountdownStart(i)
        \/ CountdownExpire(i)
        \/ CountdownCancel(i)
        \/ NumberBegin(i)
        \/ NumberTimer(i)
        \/ WatchdogCheck(i)
        \/ WatchdogEnd(i)
    \/ Tick

SpecPoints == InitPoints /\ [][NextPoints]_vars

\* Runs of the number game of bot.py in which calls of the store may fail.
NextFail ==
    \/ StartGameRejected
    \/ StartGameCreate("number_guessing")
    \/ StartGameCountdown
    \/ \E u \in Users, ok \in BOOLEAN : JoinGameDb(u, "n1", ok)
    \/ \E admin \in BOOLEAN, ok \in BOOLEAN : EndGameCommandDb(admin, ok)
    \/ \E u \in Users, x \in NumberInputs \cup {-1} : NumberGuess(u, x)
    \/ NumberWon
    \/ \E i \in TaskIds :
        \/ CountdownStart(i)
        \/ CountdownExpire(i)
        \/ CountdownCancel(i)
        \/ NumberBegin(i)
        \/ NumberTimer(i)
        \/ WatchdogCheck(i)
        \/ WatchdogEnd(i)
    \/ Tick

SpecFail == InitPoints /\ [][NextFail]_vars

\* Runs of the quiz of bot.py alone, with a content channel of more than ten
\* questions.  The tasks and the handlers in flight always go on, and time
\* passes again and again; the users do what they like.
LongBanks == {[k \in 1..(MaxQuestions + 1) |-> kind] : kind \in {"poll", "text"}}

NextQuiz ==
    \/ StartGameRejected
    \/ StartGameCreate("quiz")
    \/ StartGameCountdown
    \/ \E u \in Users : JoinGame(u, "n1")
    \/ \E admin \in BOOLEAN : EndGameCommand(admin)
    \/ \E u \in Users, ans \in {0, 1, MaxQuestions} : QuizAnswer(u, ans)
    \/ \E u \in Users, pq \in {1, MaxQuestions} : PollAnswer(u, pq, TRUE)
    \/ QuizAward
    \/ \E i \in TaskIds :
        \/ CountdownStart(i)
        \/ CountdownExpire(i)
        \/ CountdownCancel(i)
        \/ QuizBeginFrom(i, LongBanks)
        \/ QuizStart(i)
        \/ QuizSent(i)
        \/ QuizWake(i)
        \/ QuizTimeUp(i)
        \/ QuizEnd(i)
        \/ WatchdogCheck(i)
    \/ Tick

TaskStep ==
    \E i \in TaskIds :
        \/ CountdownStart(i)
        \/ CountdownExpire(i)
        \/ CountdownCancel(i)
        \/ QuizBeginFrom(i, LongBanks)
        \/ QuizStart(i)
        \/ QuizSent(i)
        \/ QuizWake(i)
        \/ QuizTimeUp(i)
        \/ QuizEnd(i)
        \/ WatchdogCheck(i)

SpecQuiz ==
    /\ InitPoints
    /\ [][NextQuiz]_vars
    /\ WF_vars(TaskStep)
    /\ WF_vars(StartGameCountdown \/ QuizAward)
    /\ SF_vars(Tick)

\* ------------------------------------------------------------------ claims
PlayersOf(s) == games[s].players

\* the timers of a purpose that are scheduled and have not fired yet
PendingTimers(kind) ==
    {i \in TaskIds : tasks[i].kind = kind /\ tasks[i].pc \in {"start", "sleep"}}

\* the session dict without the handle of its task
Fields(g) == [g EXCEPT !.timer_task = 0]

\* the session reads and writes a turn index
TurnBased(g) ==
    \/ engine = "main"
    \/ g.game_type = "wordchain" /\ g.current_word /= NoWord

\* C1: a session is created only in a room that holds none, and a start-game
\* answered with the conflict message leaves the session of the room, its
\* timers and its persisted record as they were.
C1_ConflictLeavesSession ==
    [][/\ started' /= started => active_games = 0 /\ active_games' = started'
       /\ out' = "join_prompt" => started' /= started
       /\ out' = "conflict" =>
              /\ active_games /= 0
              /\ UNCHANGED <<active_games, games, store, tasks, ledger, started, stats>>]_vars

C1_Witness ==
    /\ out = "conflict"
    /\ started = MaxGames
    /\ active_games = MaxGames
    /\ games[active_games].players /= <<>>

\* C2: no session has status in_progress with an empty players list, in
\* memory or in its persisted record.
C2_InProgressHasPlayers ==
    /\ \A s \in Sids : Live(s) /\ games[s].status = "in_progress" => PlayersOf(s) /= <<>>
    /\ store.status = "in_progress" => store.players /= <<>>

\* C3: while a handler is suspended between its checks and its updates, no
\* timer step changes the session the handler is working on or the room.
C3_HandlersDoNotInterleave ==
    [][(h /= NoH /\ h' = h) =>
          /\ active_games' = active_games
          /\ Fields(games'[h.sid]) = Fields(games[h.sid])]_vars

\* C4: a quiz award is given for the question the room is at, in a round
\* nobody has been awarded yet, so the flag it sets locks the answered round.
C4_AwardLocksAnsweredRound ==
    [][(h.kind \in {"quiz", "poll"} /\ h.pc = "award" /\ h' = NoH) =>
          /\ games[h.sid].cq.q = h.q
          /\ ~games[h.sid].answered_this_round]_vars

\* C5: the turn index of a session in progress is a valid index into a
\* non-empty players list, in memory and in the persisted record.
C5_TurnIndexValid ==
    /\ \A s \in Sids :
          Live(s) /\ games[s].status = "in_progress" /\ TurnBased(games[s]) =>
              /\ PlayersOf(s) /= <<>>
              /\ games[s].turn_index < Len(PlayersOf(s))
    /\ store.status = "in_progress" /\ TurnBased(store) =>
          store.turn_index < Len(store.players)

\* C6: status never goes back from in_progress to waiting_for_players, and a
\* session that has left the room has no document in the store.
C6_StatusForwardEndedGone ==
    [][/\ \A s \in Sids : games[s].status = "in_progress" =>
                              games'[s].status /= "waiting_for_players"
       /\ store.status = "in_progress" => store'.status /= "waiting_for_players"
       /\ store'.status /= "nodoc" =>
              /\ active_games' /= 0
              /\ engine = "main" => store'.id = active_games']_vars

\* C7: the players list never holds two entries with the same user id.
C7_UniqueUserIds ==
    \A s \in Sids : Live(s) =>
        \A i, j \in 1..Len(PlayersOf(s)) :
            PlayersOf(s)[i].user_id = PlayersOf(s)[j].user_id => i = j

\* C8: a player is eliminated by the turn timer only after holding the turn
\* for the whole turn timeout.
C8_TimeoutAfterFullTurn ==
    [][out' = "timed_out" => games[active_games].idle >= TurnTimeout]_vars

\* C9: the watchdog of a session in progress stays pending or running as
\* long as the session is in progress: no step that leaves the session in
\* progress in the room takes the watchdog away.
C9_WatchdogPending ==
    [][(/\ \E i \in TaskIds : tasks[i].kind = "watchdog"
        /\ active_games /= 0
        /\ active_games' = active_games
        /\ games'[active_games].status = "in_progress")
       => \E i \in TaskIds : tasks'[i].kind = "watchdog"]_vars

\* C10: at most one timer of a purpose is pending.
C10_OneTimerPerPurpose ==
    \A kind \in {"countdown", "watchdog", "quiz", "turn_wc", "turn_guess",
                 "join_alert", "turn_timeout"} :
        Cardinality(PendingTimers(kind)) <= 1

\* the step is the firing of timer i: its sleep is over and its callback
\* runs up to its first await
TimerFires(i) ==
    \/ CountdownExpire(i)
    \/ QuizWake(i)
    \/ TurnExpire(i)
    \/ RoundExpire(i)
    \/ WatchdogCheck(i)
    \/ JoinAlertFire(i)
    \/ TurnTimeoutFire(i)

\* the session timer i was scheduled for has left the room, or has moved
\* past the state the timer was scheduled for
StaleTimer(i) ==
    LET a == active_games
        k == tasks[i].kind
    IN \/ k \in {"quiz", "watchdog", "join_alert", "turn_timeout"} /\ a /= tasks[i].sid
       \/ k = "countdown" /\ (a = 0 \/ games[a].status /= "waiting_for_players")
       \/ k = "join_alert" /\ games[tasks[i].sid].status /= "waiting_for_players"
       \/ k \in {"turn_wc", "turn_guess"} /\ (a = 0 \/ games[a].status /= "in_progress")
       \/ k = "turn_wc" /\ a /= 0 /\ games[a].idle < TurnTimeout

\* the step of timer i changes no session, no score and no record, sends
\* nothing, schedules nothing, and the timer ends or goes back to sleep
SilentNoOp(i) ==
    /\ out' = "none"
    /\ active_games' = active_games
    /\ store' = store
    /\ ledger' = ledger
    /\ active_games /= 0 => Fields(games'[active_games]) = Fields(games[active_games])
    /\ tasks'[i].pc \in {"", "sleep"}
    /\ \A j \in TaskIds : tasks[j].kind = "free" => tasks'[j].kind = "free"

\* C11: a timer that fires after its session left the room or moved past the
\* state the timer was scheduled for is a silent no-op.
C11_StaleTimerNoOp ==
    [][\A i \in TaskIds : StaleTimer(i) /\ TimerFires(i) => SilentNoOp(i)]_vars

\* the step deletes the room's session on the admin command or because the
\* game is complete
EndsSession ==
    /\ active_games /= 0
    /\ active_games' = 0
    /\ \/ EndGameCommand(TRUE)
       \/ NumberWon
       \/ MainEndDelete
       \/ \E i \in TaskIds : QuizEnd(i) \/ NextGuessEnd(i)

\* C12: when a session is ended by the admin command or by completion, none
\* of its timers is still pending after the deletion.
C12_TimersCancelledAtEnd ==
    [][EndsSession => \A i \in TaskIds : tasks'[i].pc /= "sleep"]_vars

\* the player after user cur in the order of the list
Follower(players, cur) ==
    LET j == CHOOSE j \in 1..Len(players) : players[j].user_id = cur
    IN players[(j % Len(players)) + 1]

\* the step eliminates user cur from session s, whose list names no user
\* twice: cur and nobody else leaves the list, the turn is with the player
\* who followed cur, and with fewer than 2 players left the coroutine goes on
\* to end the session
Eliminates(s, cur, ends) ==
    LET before == games[s].players
        after == games'[s].players
    IN Cardinality(UserIds(games[s])) = Len(before) =>
       /\ after = Without(before, cur)
       /\ (cur \in UserIds(games[s]) /\ Len(after) >= 2) =>
              /\ games'[s].turn_index < Len(after)
              /\ after[games'[s].turn_index + 1] = Follower(before, cur)
       /\ Len(after) < 2 => ends

CurrentUser(g) == g.players[g.turn_index + 1].user_id

\* C13: a rejected word or a turn timeout in the word chain removes the
\* player whose turn it was, passes the turn to the player who followed, and
\* ends the session when fewer than 2 players remain.
C13_EliminationPassesTurn ==
    [][/\ WordReject => Eliminates(h.sid, h.user, h'.pc = "end")
       /\ \A i \in TaskIds :
              TurnPop(i) => Eliminates(tasks[i].sid, tasks[i].q, tasks'[i].pc = "end")
       /\ (MainWrong /\ games[h.sid].game_type = "wordchain") =>
              Eliminates(h.sid, CurrentUser(games[h.sid]), FALSE)
       /\ \A i \in TaskIds :
              (TurnTimeoutAdvance(i) /\ games[tasks[i].sid].game_type = "wordchain") =>
                  Eliminates(tasks[i].sid, CurrentUser(games[tasks[i].sid]), FALSE)]_vars

\* the word chain rule of the specification: the word starts with the last
\* letter of the current word, is longer than one letter and is alphabetic
ChainRule(word, current) ==
    /\ Len(word) > 1
    /\ current /= NoWord
    /\ LowerChar(word[1]) = LowerChar(current[Len(current)])
    /\ \A k \in 1..Len(word) : word[k] \in LowerCase \cup UpperCase

\* C14: a word chain answer is accepted only under the chain rule; the
\* accepted answer scores 5 points, becomes the current word and passes the
\* turn to index (turn_index + 1) mod len(players).
C14_WordAccepted ==
    [][/\ out' = "word_ok" =>
              /\ ChainRule(h'.word, games[active_games].current_word)
              /\ ledger' = [ledger EXCEPT ![h'.user] = @ + WordPoints]
       /\ WordAccept =>
              /\ games'[h.sid].current_word = h.word
              /\ PlayersOf(h.sid) /= <<>>
              /\ games'[h.sid].turn_index =
                     (games[h.sid].turn_index + 1) % Len(PlayersOf(h.sid))
       /\ (out' = "answer_correct" /\ games[active_games].game_type = "wordchain") =>
              /\ ChainRule(h'.word, games[active_games].current_word)
              /\ \E u \in Users :
                     games'[active_games].score =
                         [games[active_games].score EXCEPT ![u] = @ + WordPoints]
       /\ (MainCorrect /\ games[h.sid].game_type = "wordchain") =>
              /\ games'[h.sid].current_word = h.word
              /\ games'[h.sid].turn_index =
                     (games[h.sid].turn_index + 1) % Len(PlayersOf(h.sid))]_vars

\* C15: a correct guess is scored 15 points once, for a joined player, in a
\* round nobody has guessed yet; it closes the round at once: the round timer
\* is gone, the round index is that of the item after the guessed one, and
\* the task that sends the next item (or ends the game) is started.
C15_CorrectGuessClosesRound ==
    [][/\ out' = "guess_correct" =>
              /\ h'.user \in UserIds(games[active_games])
              /\ ~games[active_games].guessed_this_round
              /\ ledger' = [ledger EXCEPT ![h'.user] = @ + GuessPoints]
       /\ GuessWon =>
              /\ ledger' = ledger
              /\ games'[h.sid].guessed_this_round
              /\ games'[h.sid].current_round = games[h.sid].cgi
              /\ \A i \in TaskIds : tasks'[i].kind /= "turn_guess"
              /\ \E i \in TaskIds : tasks'[i].kind = "next_guess" /\ tasks'[i].pc = "start"]_vars

\* C16: the round index of a guessing game moves one item at a time: it is
\* the index of the item on display, or of the item right after it once the
\* round is closed; no item is passed over.
C16_RoundsAdvanceByOne ==
    \A s \in Sids :
        (games[s].game_type = "guessing" /\ games[s].cgi >= 0) =>
            /\ games[s].current_round <= games[s].cgi
            /\ games[s].cgi <= games[s].current_round + 1

\* the round index of a quiz or guessing session whose rounds are set up is
\* below the number of its rounds
RoundInRange(g) ==
    /\ (g.game_type = "quiz" /\ g.cq.type /= "absent") =>
           /\ Len(g.quiz_data) <= MaxRounds
           /\ g.current_round < Len(g.quiz_data)
    /\ (g.game_type = "guessing" /\ g.cgi /= -1) =>
           /\ g.guessing_len <= MaxRounds
           /\ g.current_round < g.guessing_len

\* C17: every quiz or guessing session that exists, in the room and in the
\* store, has a round index below the number of its rounds.
C17_RoundIndexInRange ==
    /\ active_games /= 0 => RoundInRange(games[active_games])
    /\ store.status /= "nodoc" => RoundInRange(store)

\* the score of the specification for a win at the given number of attempts
WinScore(attempts) ==
    IF 100 - 5 * attempts >= 10 THEN 100 - 5 * attempts ELSE 10

\* C18: the winning guess of the number game scores max(10, 100 - 5 * n),
\* where n counts the winner's guesses in range, the winning one included:
\* 95 for the first guess, 10 from the 18th guess on.
C18_NumberScore ==
    [][out' = "number_correct" =>
          \E u \in Users :
              LET n == games'[active_games].guesses_made[u]
                  won == ledger'[u] - ledger[u]
              IN /\ n = games[active_games].guesses_made[u] + 1
                 /\ ledger' = [ledger EXCEPT ![u] = @ + WinScore(n)]
                 /\ n = 1 => won = 95
                 /\ n >= 18 => won = 10]_vars

C18_Witness ==
    /\ out = "number_correct"
    /\ \E u \in Users :
           /\ games[active_games].guesses_made[u] > 18
           /\ ledger[u] = 10

\* C19: in a number game in progress every guess in range by a joined player
\* adds exactly 1 to that player's attempt count; the guess that equals the
\* secret ends the session, in the room and in the store, when its handler
\* completes; any other guess leaves the session in progress with its secret.
C19_GuessCountsOnce ==
    [][/\ \A u \in Users, x \in NumberInputs :
              (/\ 1 <= x /\ x <= NumberMax
               /\ NumberGuessUpTo(u, x, MaxGuesses)
               /\ u \in UserIds(games[active_games])) =>
                  /\ games'[active_games].guesses_made =
                         [games[active_games].guesses_made EXCEPT ![u] = @ + 1]
                  /\ games'[active_games].secret_number =
                         games[active_games].secret_number
                  /\ x = games[active_games].secret_number => h'.pc = "won"
                  /\ x /= games[active_games].secret_number =>
                         /\ h' = NoH
                         /\ active_games' = active_games
                         /\ games'[active_games].status = "in_progress"
       /\ NumberWon => active_games' = 0 /\ store' = NoDoc]_vars

\* the step answers a command with a refusal and touches nothing
Refused ==
    /\ out' = "admin_only"
    /\ h' = NoH
    /\ UNCHANGED <<active_games, games, store, tasks, ledger, started, stats>>

\* C20: the end-game command of a sender who is not an admin of the chat is
\* refused and changes nothing; the end-game command of an admin removes the
\* session of the room, waiting or in progress, and its record.
C20_EndGameNeedsAdmin ==
    [][/\ EndGameCommand(FALSE) => Refused
       /\ (MainEndGame(FALSE) /\ active_games /= 0) => Refused
       /\ (EndGameCommand(TRUE) /\ active_games /= 0) =>
              active_games' = 0 /\ store' = NoDoc]_vars

\* C21: an answer out of turn in the word chain, and a message of the number
\* game that is no number or lies outside the range, are answered and change
\* nothing: not the session, its record, its timers or any score.
C21_InvalidInputNoChange ==
    [][out' \in {"not_your_turn", "not_a_number", "out_of_range"} =>
          /\ h' = NoH
          /\ UNCHANGED <<active_games, games, store, tasks, ledger, started, stats>>]_vars

C21_Witness ==
    /\ engine = "bot"
    /\ out = "not_your_turn"
    /\ games[active_games].game_type = "wordchain"
    /\ games[active_games].turn_index = 1
    /\ games[active_games].idle > 0

\* update_user_score with $inc of total_score alone.
UpdateUserDocTotalOnly(doc, group_id, points) ==
    [doc EXCEPT !.total_score = @ + points]

\* update_user_score on the whole document of a user: one update_one with
\* $inc of total_score and of group_scores.<group_id>, upsert=True.  $inc
\* creates a field that is not there with the increment as its value.
UpdateUserDoc(doc, group_id, points) ==
    [total_score |-> doc.total_score + points,
     group_scores |->
         [r \in DOMAIN doc.group_scores \cup {group_id} |->
             (IF r \in DOMAIN doc.group_scores THEN doc.group_scores[r] ELSE 0)
             + (IF r = group_id THEN points ELSE 0)]]

\* The users collection alone: ledger holds the document of each user, the
\* rooms are numbered like the sessions, and a scoring event of any game of
\* any room calls update_user_score.  ok: update_one works; its exception is
\* caught and nothing is written (lines 103-104).
InitScore ==
    /\ engine = "bot"
    /\ limit = PlayGames
    /\ active_games = 0
    /\ games = [s \in Sids |-> Blank]
    /\ store = NoDoc
    /\ tasks = [i \in TaskIds |-> NoTask]
    /\ h = NoH
    /\ ledger = [u \in Users |-> [total_score |-> 0, group_scores |-> <<>>]]
    /\ started = 0 /\ stats = NoStats /\ boots = 0 /\ out = "none"

ScoreEvent(u, group_id, points, ok) ==
    /\ ledger[u].total_score + points <= MaxWords * GuessPoints
    /\ ledger' = IF ok THEN [ledger EXCEPT ![u] = UpdateUserDoc(@, group_id, points)]
                  ELSE ledger
    /\ out' = IF ok THEN "scored" ELSE "log"
    /\ UNCHANGED <<engine, limit, active_games, games, store, tasks, h, started,
                   stats, boots>>

NextScore ==
    \E u \in Users, group_id \in Sids, ok \in BOOLEAN,
       points \in {QuizPoints, WordPoints, GuessPoints} :
        ScoreEvent(u, group_id, points, ok)

SpecScore == InitScore /\ [][NextScore]_vars

\* The number game under a clock that also stops between the wake-ups, so
\* that guesses arrive at any age of last_activity_time.
NextIdle ==
    \/ StartGameCreate("number_guessing")
    \/ StartGameCountdown
    \/ \E u \in Users : JoinGame(u, "n1")
    \/ \E u \in Users, x \in NumberInputs \cup {-1} : NumberGuessUpTo(u, x, 1)
    \/ NumberWon
    \/ \E i \in TaskIds :
        \/ CountdownStart(i)
        \/ CountdownExpire(i)
        \/ CountdownCancel(i)
        \/ NumberBegin(i)
        \/ NumberTimer(i)
        \/ WatchdogCheck(i)
        \/ WatchdogEnd(i)
    \/ Tick
    \/ Drift

SpecIdle == InitPoints /\ [][NextIdle]_vars

C23_EndRecordsStats ==
    [][(active_games /= 0 /\ active_games' = 0
            /\ games[active_games].players /= <<>>) =>
          LET g == games[active_games]
          IN \A u \in UserIds(g) :
                /\ stats'[u].games_played = 1
                /\ stats'[u].games_won = (IF u = TopRanked(g) THEN 1 ELSE 0)
                /\ engine = "main" => ledger'[u] = g.score[u]]_vars

\* C24: when the process is started again while the record of the room is the
\* snapshot of its session, the session loaded is the same session: every
\* field of it but the handle of the timer task has the value it had.
C24_LoadReproducesSession ==
    [][(/\ out' = "restart"
        /\ active_games /= 0
        /\ store = (IF engine = "bot" THEN Snapshot(games[active_games])
                    ELSE GameDataForDb(games[active_games]))) =>
          /\ active_games' /= 0
          /\ [games'[active_games'] EXCEPT !.timer_task = 0]
                 = [games[active_games] EXCEPT !.timer_task = 0]]_vars

\* C25: the step that starts the process again leaves a loaded session with
\* its timers pending: the join-window timer for a session that waits for
\* players, the watchdog and the turn timer for a word chain in progress.
C25_TimersRearmed ==
    [][(out' = "restart" /\ active_games' /= 0) =>
          LET g == games'[active_games']
              Pending(kind) == \E i \in TaskIds : tasks'[i].kind = kind
          IN /\ g.status = "waiting_for_players" => Pending("countdown")
             /\ g.status = "in_progress" => Pending("watchdog") /\ Pending("turn_wc")]_vars

\* C26: a room without a session in memory has no record in the store.
C26_EndedSessionNotStored == active_games = 0 => store.status = "nodoc"

\* C28: when the room is told that the game has no content, no session has
\* been made for the start: the room has none in memory before or after the
\* step, and the step writes nothing to the store.
C28_NoContentNoSession ==
    [][out' = "no_content" =>
          active_games = 0 /\ active_games' = 0 /\ store' = store]_vars

\* C29: a joined player who votes the correct option of the poll of the round,
\* within its window and before anybody was awarded for the question, is told
\* that the answer is right (and is credited 10 points when the handler ends).
C29_CorrectVoteScores ==
    [][\A u \in Users, pq \in 1..MaxRounds :
          (/\ PollAnswer(u, pq, TRUE)
           /\ \E i \in TaskIds : /\ tasks[i].kind = "quiz" /\ tasks[i].pc = "sleep"
                                  /\ tasks[i].sid = active_games /\ tasks[i].wake > 0
           /\ games[active_games].cq = [type |-> "poll", q |-> pq]
           /\ u \in UserIds(games[active_games])
           /\ pq \notin games[active_games].awarded)
          => out' = "quiz_correct" /\ h'.user = u /\ h'.pc = "award"]_vars

\* C30: a quiz has at most ten questions; each question sent is the one after
\* the question sent last, and its window is 20 s; the end is announced when
\* the last question has been sent; and a quiz in progress always comes to
\* an end, whatever the users do.
C30_QuizEnds ==
    /\ [](\A s \in Sids : Len(games[s].quiz_data) <= MaxQuestions)
    /\ [][/\ out' \in {"poll", "question"} =>
                \E i \in TaskIds :
                    /\ tasks'[i].kind = "quiz" /\ tasks'[i].pc = "sent"
                    /\ tasks'[i].q = games[tasks'[i].sid].cq.q + 1
                    /\ tasks'[i].q <= Len(games[tasks'[i].sid].quiz_data)
          /\ out' = "quiz_over" =>
                games[active_games].cq.q = Len(games[active_games].quiz_data)
          /\ \A i \in TaskIds :
                (tasks[i].kind = "quiz" /\ tasks[i].pc = "sent"
                    /\ tasks'[i].pc = "sleep") => tasks'[i].wake = QuizWindow]_vars
    /\ ((/\ active_games /= 0
         /\ games[active_games].game_type = "quiz"
         /\ games[active_games].status = "in_progress") ~> active_games = 0)

C30_Witness ==
    /\ out = "quiz_over"
    /\ Len(games[active_games].quiz_data) = MaxQuestions
    /\ games[active_games].cq.q = MaxQuestions

\* C27: a step whose call of the store fails does in memory what it does with
\* a working store, and answers the same: a join adds the player and says so,
\* and the end command of an admin removes the session and says so.
C27_StoreErrorNoAbort ==
    [][/\ \A u \in Users :
             (/\ JoinGameDb(u, "n1", FALSE)
              /\ active_games /= 0
              /\ games[active_games].status = "waiting_for_players"
              /\ u \notin UserIds(games[active_games]))
             => /\ out' = "joined"
                /\ u \in UserIds(games'[active_games])
       /\ (EndGameCommandDb(TRUE, FALSE) /\ active_games /= 0)
             => out' = "ended_admin" /\ active_games' = 0]_vars

\* C31: when no handler is in flight and every task sleeps, the record of the
\* room is the snapshot of the session the room has in memory.
C31_RecordFollowsMemory ==
    (Quiet /\ active_games /= 0) =>
        store = (IF engine = "bot" THEN Snapshot(games[active_games])
                 ELSE GameDataForDb(games[active_games]))

\* C32: a word accepted in the word chain is a word of the content: in bot.py
\* one of the words the content bank may hold, in main.py the answer of the
\* game.
C32_AcceptedWordIsTarget ==
    [][/\ (engine = "bot" /\ out' = "word_ok") =>
             h'.word \in UNION WordBanks
       /\ (/\ engine = "main" /\ out' = "answer_correct"
           /\ games[active_games].game_type = "wordchain") =>
             Upper(h'.word) = games[active_games].answer]_vars

\* C33: the step that turns a session to in_progress and the step that starts
\* its game leave the sequence of players as the joins built it, so that the
\* first turn is the first joiner's.
C33_StartKeepsJoinOrder ==
    [][(/\ out' \in {"game_started", "wc_started"}
        /\ active_games /= 0 /\ active_games' = active_games) =>
          games'[active_games].players = games[active_games].players]_vars

\* C34: outside a restart, the players of a session grow only by a step taken
\* while the session waits for players, and a join is answered as accepted only
\* then: an in_progress session never gains a player.
C34_JoinOnlyWhileWaiting ==
    [][/\ \A sid \in DOMAIN games :
            (/\ boots' = boots
             /\ Len(games'[sid].players) > Len(games[sid].players)) =>
              games[sid].status = "waiting_for_players"
       /\ (out' = "joined" /\ h = NoH) =>
            /\ active_games /= 0
            /\ games[active_games].status = "waiting_for_players"]_vars

\* C34: a join press reached a session that is in progress and was turned down.
C34_Witness ==
    /\ out = "join_closed" /\ active_games /= 0
    /\ games[active_games].status = "in_progress"
    /\ Len(games[active_games].players) > 0

\* C35: in bot.py a task or handler that has announced the end of the session of the
\* room and is about to delete it still finds a session to delete: nobody else
\* has ended it in between.
C35_EndedOnce ==
    engine = "bot" =>
        /\ \A i \in DOMAIN tasks :
             tasks[i].pc \in {"end", "cancel"} => active_games /= 0
        /\ h.pc = "end" => active_games /= 0

\* C36: the watchdog announces the end for inactivity only when, at its check,
\* the session of the room is in progress and its last activity is at least
\* the inactivity limit old; and no session in progress is ever older than the
\* limit plus one period of the watchdog.
C36_EndOnlyAfterLimit ==
    [][/\ out' = "inactivity" =>
            /\ active_games /= 0
            /\ games[active_games].status = "in_progress"
            /\ games[active_games].idle >= InactivityLimit
       /\ (active_games' /= 0 /\ games'[active_games'].status = "in_progress") =>
            games'[active_games'].idle <= InactivityLimit + WatchdogPeriod]_vars

\* C36: a guess was made and moved the last activity off the rhythm of the
\* watchdog; the end is announced at a check later than the limit.
C36_Witness ==
    /\ out = "inactivity" /\ active_games /= 0
    /\ games[active_games].idle > InactivityLimit
    /\ \E u \in Users : games[active_games].guesses_made[u] > 0

\* C37: a message or a vote of a user who is not among the players of the
\* session of the room changes neither a session nor the ledger, and its
\* handler ends at once.
C37_OnlyPlayersAct ==
    [][\A u \in Users :
            (/\ h = NoH /\ active_games /= 0
             /\ u \notin UserIds(games[active_games])
             /\ \/ \E x \in NumberInputs \cup {-1} : NumberGuess(u, x)
                \/ \E ans \in 0..MaxRounds : QuizAnswer(u, ans)
                \/ \E pq \in 1..MaxRounds, right \in BOOLEAN : PollAnswer(u, pq, right)
                \/ \E w \in UserWords : WordAnswer(u, w)
                \/ \E ans \in 0..MaxRounds : GuessAnswer(u, ans)
                \/ \E text \in MainTexts : MainMessage(u, text)) =>
              (games' = games /\ ledger' = ledger /\ h' = NoH)]_vars

\* C37: every player of a word chain in progress is the same user, and a word
\* of the other user was turned down.
C37_Witness ==
    /\ engine = "bot" /\ out = "not_your_turn" /\ active_games /= 0
    /\ games[active_games].status = "in_progress"
    /\ Cardinality(UserIds(games[active_games])) = 1

\* C38: when nothing runs, a word chain in progress whose first word is out
\* has at least two players.
C38_ChainHasTwoPlayers ==
    (/\ Quiet /\ active_games /= 0
     /\ games[active_games].game_type = "wordchain"
     /\ games[active_games].status = "in_progress"
     /\ games[active_games].current_word /= NoWord) =>
        Len(games[active_games].players) >= 2

C40_VoteScoresOwnPoll ==
    [][(h.kind = "poll" /\ h.pc = "award" /\ h' /= h) =>
          /\ active_games = h.sid
          /\ games[h.sid].status = "in_progress"
          /\ games[h.sid].cq.type = "poll"
          /\ games[h.sid].cq.q = h.q]_vars

====
